---- MODULE Spec2Model ----
(***************************************************************************)
(* The per-space broadcast engine of the metaverse websocket layer:        *)
(* routes.py (ws_endpoint), space_broadcaster.py (space_broadcaster,       *)
(* get_space_broadcaster, the module-level registries) and the transport   *)
(* behaviour of a Starlette WebSocket.                                     *)
(*                                                                         *)
(* asyncio is cooperative: the code between two awaits that really suspend *)
(* is one atomic step.  Every action below is one such stretch of one      *)
(* task: the route task of a connection (ws_endpoint), its parser task     *)
(* (message_parser) or a broadcast-loop task (start).  The parser task     *)
(* runs the chat pipeline (chat.py) and the media manager (media.py); the  *)
(* invite manager (invite.py) is run by the handlers that await it.        *)
(***************************************************************************)
EXTENDS Integers, Sequences, FiniteSets, TLC

None == "none"

\* The connections, spaces and user ids of the model.  A task is named by the
\* connection that created it: each connection subscribes at most once, so it
\* constructs at most one space_broadcaster and starts at most one loop task.
Conns == {"c1", "c2", "c3"}
Spaces == {"s1", "s2"}
\* Rows of the users table; "u9" is a user id with no row.
StoreUsers == {"u1", "u2"}
UserIds == StoreUsers \cup {"u9"}

\* Total number of text frames the clients send (subscribe frames included).
MaxFrames == 3

\* get_users_in_space: the Store's membership rows (u1 is a member of both).
get_users_in_space(s) == {"u1"}

\* spaces.max_users of the Store's rows: s1 is full with its one member.
max_users(s) == IF s = "s1" THEN 1 ELSE 2

\* get_user_by_id: a record iff the users table has the row.
get_user_by_id(u) == u \in StoreUsers

\* The users table as the invite queries read it (every row is_active): the
\* rows above and one more user that no connection of the model joins as.
users == StoreUsers \cup {"u3"}

\* spaces.admin_user_id; every space row is_active.
admin_user_id(s) == "u1"

\* The ids of the notifications table (uuid4 values), the rows of type
\* 'invites' with is_active true.
InviteIds == {"n1", "n2", "n3", "n4"}

\* The concurrent invocations of InviteManager methods.
Calls == {"k1", "k2"}

\* WSConfig.INVITE_EXPIRY_HOURS
INVITE_EXPIRY_HOURS == 24

\* The clock (datetime.utcnow(), NOW()), in hours, runs up to MaxClock.
MaxClock == 2

Range(s) == {s[i] : i \in DOMAIN s}

\* list.remove / del dict[key] on a list of distinct items.
Remove(s, x) == SelectSeq(s, LAMBDA y : y # x)

\* An update on a space's queue.  "by" is the connection whose parser put it
\* (history only: the code does not store it).
Ev(e, u, x, by) == [event |-> e, user_id |-> u, exclude_ws |-> x, by |-> by]
NoEv == Ev(None, None, None, None)

NoPos == << >>

\* space_broadcaster.__init__ (the object before construction has space_id None).
\* active_streams is the media manager's active_audio_streams and
\* active_video_streams for the space, as pairs <<media type, user id>>.
NewBroadcaster(s) ==
    [space_id |-> s, users |-> {}, position_map |-> [u \in UserIds |-> NoPos],
     running |-> TRUE, subscribers |-> << >>, parser_tasks |-> << >>,
     broadcast_task |-> None, space_updates |-> << >>, qhead |-> 0,
     active_streams |-> {}]

NoLoop == [pc |-> "none", cancel |-> FALSE, update |-> NoEv, seq |-> 0, idx |-> 0,
           disconnected |-> {}, startSubs |-> {}, sentTo |-> {}]

VARIABLES
    space_broadcaster_manager, \* space id -> the connection naming its broadcaster, or None
    user_ws_mapping,           \* the dict user id -> websocket, as its items in dict order
    sb,                        \* the space_broadcaster objects, by constructing connection
    ws,                        \* each WebSocket: client side and application side
    route,                     \* each ws_endpoint task: pc and locals
    parser,                    \* each message_parser task: pc and locals
    loop,                      \* each start() task, by the connection whose route created it
    sent,                      \* history, per connection: updates, the queue places of
                               \* the updates written to it, in the order written;
                               \* states, the number of space_state frames written to it;
                               \* replies, the frames the parser tasks wrote to it
    frames,                    \* number of text frames the clients may still send
    joinedOn,                  \* history: user ids whose join completed on the connection
    message,                   \* the Message objects of the chat pipelines, by message id
    in_memory_cache,           \* RedisCache.in_memory_cache: the ids m with a key msg:{m}
    messages,                  \* the Store's messages table: rows [message_id, status]
    db_retry_queue,            \* MessagePipeline.db_retry_queue, the dead-letter queue
    notifications,             \* the Store's notifications table, by id
    user_spaces,               \* the Store's user_spaces table: rows <<user_id, space_id>>
    now,                       \* the clock
    call                       \* each invocation of an InviteManager method: pc and locals

\* The state of the chat pipeline.
chatVars == <<message, in_memory_cache, messages, db_retry_queue>>

\* The state of the invite manager and of the tables it reads and writes.
inviteVars == <<notifications, user_spaces, now, call>>

vars == <<space_broadcaster_manager, user_ws_mapping, sb, ws, route, parser, loop,
          sent, frames, joinedOn, message, in_memory_cache, messages, db_retry_queue,
          notifications, user_spaces, now, call>>

\* The frame data a parser holds while no chat frame is being handled.
NoData == [sender_id |-> None, message_type |-> None, receiver_id |-> None, content |-> 0]

\* A notifications id with no row, and an invocation that has not started.
\* expires_at is the set of the row's expiry time, empty for NULL.
NoRow == [user_id |-> None, spaceId |-> None, fromUserId |-> None, status |-> None,
          expires_at |-> {}]
\* seen is history: what the tables held when the method was invoked.
NoSeen == [row |-> NoRow, expired |-> FALSE, member |-> FALSE, room |-> FALSE,
           pre |-> FALSE, stale |-> {}, before |-> {}]
NoCall == [op |-> None, pc |-> "idle", user_id |-> None, to_user_id |-> None,
           space_id |-> None, notification_id |-> None, include_expired |-> FALSE,
           writes |-> << >>, result |-> None, invites |-> {}, seen |-> NoSeen]

\* The membership rows get_users_in_space reads.
MemberRows == UNION {{<<u, s>> : u \in get_users_in_space(s)} : s \in Spaces}

\* The websocket layer before its first frame.
InitConns(n) ==
    /\ space_broadcaster_manager = [s \in Spaces |-> None]
    /\ user_ws_mapping = << >>
    /\ sb = [c \in Conns |-> NewBroadcaster(None)]
    /\ ws = [c \in Conns |-> [client |-> "open", app |-> "connected"]]
    /\ route = [c \in Conns |-> [pc |-> "recv", sb |-> None, waitFor |-> None,
                                  stopList |-> << >>]]
    /\ parser = [c \in Conns |-> [pc |-> "none", user_id |-> None, exit |-> None,
                                   data |-> NoData, msg |-> 0, result |-> None]]
    /\ loop = [c \in Conns |-> NoLoop]
    /\ sent = [c \in Conns |-> [updates |-> << >>, states |-> 0, replies |-> << >>]]
    /\ frames = n
    /\ joinedOn = [c \in Conns |-> {}]
    /\ message = << >>
    /\ in_memory_cache = {}
    /\ messages = {}
    /\ db_retry_queue = << >>

\* No invite row, and no InviteManager method is invoked.
InitWith(n) ==
    /\ InitConns(n)
    /\ notifications = [i \in InviteIds |-> NoRow]
    /\ user_spaces = MemberRows
    /\ now = 0
    /\ call = [k \in Calls |-> NoCall]

Init == InitWith(MaxFrames)

----------------------------------------------------------------------------
(* Transport *)

\* The endpoint returning makes the server close the websocket.
AppClosed(c) == ws[c].app = "closed" \/ route[c].pc = "done"

\* send_text succeeds only on a connection neither side has closed.
CanSend(c) == ws[c].client = "open" /\ ~AppClosed(c)

\* A frame a parser task writes to connection c: an error reply with its
\* message, position_move_ack, or WEBRTC_SIGNAL with its from_user_id.
Frame(e, x) == [event |-> e, of |-> x]
Reply(s, c, f) == [s EXCEPT ![c].replies = Append(@, f)]

\* The client closes the transport: the next receive gets the disconnect message.
\* (A connection that closes before it subscribes touches no shared state, and
\* once the endpoint has returned the server has closed the websocket itself.)
ClientClose(c) ==
    /\ ws[c].client = "open"
    /\ route[c].sb # None
    /\ route[c].pc # "done"
    /\ ws' = [ws EXCEPT ![c].client = "closed"]
    /\ UNCHANGED <<space_broadcaster_manager, user_ws_mapping, sb, route, parser,
                   loop, sent, frames, joinedOn>>
    /\ UNCHANGED chatVars
    /\ UNCHANGED inviteVars

\* A task is done() once it has returned, raised or been cancelled.  The
\* locals of a finished task are dead: user_id is reset to None with it.
ParserDone(c) == parser[c].pc \in {"done", "cancelled"}
LoopDone(l) == loop[l].pc \in {"none", "done"}

----------------------------------------------------------------------------
(* ws_endpoint: the finally block and space_broadcaster.stop, which the     *)
(* route task runs inline.                                                  *)

\* stop(): the tasks of the snapshot list(self.parser_tasks.items()) that are
\* done() are passed over without suspending.
RECURSIVE SkipDone(_)
SkipDone(l) ==
    IF l = << >> THEN << >>
    ELSE IF ParserDone(Head(l)) THEN SkipDone(Tail(l)) ELSE l

\* stop(), from the loop over the parser tasks on: cancel and await the next
\* live one, or (none left) clear parser_tasks and subscribers and take the
\* broadcaster out of space_broadcaster_manager if the entry is still this one.
\* chat_manager.cleanup() does not suspend with the in-memory cache.
\* A cancelled parser raises CancelledError at its await and runs no handler
\* (CancelledError is no Exception), so it is marked cancelled at once.
StopParsers(c, b, rec, list) ==
    LET l2 == SkipDone(list) IN
    IF l2 = << >>
    THEN /\ sb' = [sb EXCEPT ![b] = [rec EXCEPT !.parser_tasks = << >>,
                                                !.subscribers = << >>]]
         /\ space_broadcaster_manager' =
                [s \in Spaces |->
                    IF s = rec.space_id /\ space_broadcaster_manager[s] = b
                    THEN None ELSE space_broadcaster_manager[s]]
         /\ parser' = parser
         /\ route' = [route EXCEPT ![c].pc = "done", ![c].stopList = << >>,
                                   ![c].waitFor = None]
    ELSE /\ sb' = [sb EXCEPT ![b] = rec]
         /\ space_broadcaster_manager' = space_broadcaster_manager
         /\ parser' = [parser EXCEPT ![Head(l2)].pc = "cancelled",
                                     ![Head(l2)].exit = "cancelled",
                                     ![Head(l2)].user_id = None]
         /\ route' = [route EXCEPT ![c].pc = "stop_await_parser",
                                   ![c].stopList = Tail(l2), ![c].waitFor = None]

\* stop(), up to its first await: _running = False, cancel the broadcast task
\* and await it; with no live broadcast task, go on to the parser tasks.
StopBegin(c, b, rec) ==
    LET bt == rec.broadcast_task IN
    IF bt # None /\ ~LoopDone(bt)
    THEN /\ loop' = [loop EXCEPT ![bt].cancel = TRUE]
         /\ sb' = [sb EXCEPT ![b] = [rec EXCEPT !.running = FALSE]]
         /\ route' = [route EXCEPT ![c].pc = "stop_await_loop", ![c].waitFor = bt]
         /\ UNCHANGED <<space_broadcaster_manager, parser>>
    ELSE /\ loop' = loop
         /\ StopParsers(c, b, [rec EXCEPT !.running = FALSE, !.broadcast_task = None],
                        rec.parser_tasks)

\* A finally block that deletes the parser task's entry and leaves the
\* websocket in subscribers.
FinishFinallyKeepsSubscriber(c, b, rec) ==
    /\ sb' = [sb EXCEPT ![b] = rec]
    /\ route' = [route EXCEPT ![c].pc = "done"]
    /\ UNCHANGED <<space_broadcaster_manager, parser, loop>>

\* The finally block after the parser task's entry is deleted: remove the
\* websocket from subscribers, and stop the broadcaster if none is left.
FinishFinally(c, b, rec) ==
    LET rec2 == [rec EXCEPT !.subscribers = Remove(@, c)] IN
    IF Len(rec2.subscribers) = 0
    THEN StopBegin(c, b, rec2)
    ELSE /\ sb' = [sb EXCEPT ![b] = rec2]
         /\ route' = [route EXCEPT ![c].pc = "done"]
         /\ UNCHANGED <<space_broadcaster_manager, parser, loop>>

\* The route leaves "await parser_task" (the parser returned or was cancelled)
\* or an exception of its own, and enters the finally block.
RouteFinally(c) ==
    /\ \/ route[c].pc = "finally"
       \/ route[c].pc = "await_parser" /\ ParserDone(c)
    /\ LET b == route[c].sb IN
       IF c \in Range(sb[b].parser_tasks)
       THEN IF ~ParserDone(c)
            THEN /\ parser' = [parser EXCEPT ![c].pc = "cancelled",
                                             ![c].exit = "cancelled",
                                             ![c].user_id = None]
                 /\ route' = [route EXCEPT ![c].pc = "fin_await"]
                 /\ UNCHANGED <<sb, space_broadcaster_manager, loop>>
            ELSE FinishFinally(c, b, [sb[b] EXCEPT !.parser_tasks = Remove(@, c)])
       ELSE FinishFinally(c, b, sb[b])
    /\ UNCHANGED <<user_ws_mapping, ws, sent, frames, joinedOn>>
    /\ UNCHANGED chatVars
    /\ UNCHANGED inviteVars

\* After "await task" in the finally block: del sb.parser_tasks[websocket]
\* raises KeyError when a stop() has cleared the dict meanwhile, and the rest
\* of the block is not run.
RouteFinAwait(c) ==
    /\ route[c].pc = "fin_await"
    /\ LET b == route[c].sb IN
       IF c \in Range(sb[b].parser_tasks)
       THEN FinishFinally(c, b, [sb[b] EXCEPT !.parser_tasks = Remove(@, c)])
       ELSE /\ route' = [route EXCEPT ![c].pc = "done"]
            /\ UNCHANGED <<sb, space_broadcaster_manager, parser, loop>>
    /\ UNCHANGED <<user_ws_mapping, ws, sent, frames, joinedOn>>
    /\ UNCHANGED chatVars
    /\ UNCHANGED inviteVars

\* stop() after "await self.broadcast_task": broadcast_task = None, then the
\* parser tasks present now.
RouteStopLoopDone(c) ==
    /\ route[c].pc = "stop_await_loop"
    /\ LoopDone(route[c].waitFor)
    /\ LET b == route[c].sb IN
       StopParsers(c, b, [sb[b] EXCEPT !.broadcast_task = None], sb[b].parser_tasks)
    /\ UNCHANGED <<user_ws_mapping, ws, loop, sent, frames, joinedOn>>
    /\ UNCHANGED chatVars
    /\ UNCHANGED inviteVars

\* stop() after "await task" of a cancelled parser: the rest of the snapshot.
RouteStopParserDone(c) ==
    /\ route[c].pc = "stop_await_parser"
    /\ StopParsers(c, route[c].sb, sb[route[c].sb], route[c].stopList)
    /\ UNCHANGED <<user_ws_mapping, ws, loop, sent, frames, joinedOn>>
    /\ UNCHANGED chatVars
    /\ UNCHANGED inviteVars

----------------------------------------------------------------------------
(* ws_endpoint: subscribe *)

\* A subscribe frame: get_space_broadcaster (get or construct), add_subscriber
\* (append to subscribers, create the parser task, register it), then
\* start_if_not_running up to its await of init_data; with a live broadcast
\* task the confirmation is sent at once (the client is open: it just sent).
RouteSubscribe(c, s) ==
    /\ route[c].pc = "recv"
    /\ ws[c].client = "open"
    /\ frames > 0
    /\ LET old == space_broadcaster_manager[s]
           b == IF old # None THEN old ELSE c
           rec0 == IF old # None THEN sb[b] ELSE NewBroadcaster(s)
           rec1 == [rec0 EXCEPT !.subscribers = Append(@, c),
                                !.parser_tasks = Append(@, c)]
           start == rec1.broadcast_task = None \/ LoopDone(rec1.broadcast_task)
       IN /\ space_broadcaster_manager' = [space_broadcaster_manager EXCEPT ![s] = b]
          /\ sb' = [sb EXCEPT ![b] = rec1]
          /\ parser' = [parser EXCEPT ![c].pc = "recv"]
          /\ route' = [route EXCEPT ![c].pc = IF start THEN "init_data" ELSE "await_parser",
                                    ![c].sb = b]
    /\ frames' = frames - 1
    /\ UNCHANGED <<user_ws_mapping, ws, loop, sent, joinedOn>>
    /\ UNCHANGED chatVars
    /\ UNCHANGED inviteVars

\* init_data: the Store's members go into users, and into position_map unless
\* already there.
InitData(rec) ==
    LET members == get_users_in_space(rec.space_id) IN
    [rec EXCEPT !.users = @ \cup members,
                !.position_map = [u \in UserIds |->
                    IF u \in members /\ @[u] = NoPos THEN <<0, 0>> ELSE @[u]]]

\* start_if_not_running after "await self.init_data()": _running = True, a new
\* broadcast task replaces broadcast_task; then the route sends "subscribed"
\* and awaits the parser, or the send raises and the finally block is next.
\* chat_manager.initialize() does not suspend with the in-memory cache.
RouteInitData(c) ==
    /\ route[c].pc = "init_data"
    /\ LET b == route[c].sb IN
       sb' = [sb EXCEPT ![b] = [InitData(sb[b]) EXCEPT !.running = TRUE,
                                                       !.broadcast_task = c]]
    /\ loop' = [loop EXCEPT ![c] = [NoLoop EXCEPT !.pc = "get"]]
    /\ route' = [route EXCEPT ![c].pc = IF CanSend(c) THEN "await_parser" ELSE "finally"]
    /\ UNCHANGED <<space_broadcaster_manager, user_ws_mapping, ws, parser, sent,
                   frames, joinedOn>>
    /\ UNCHANGED chatVars
    /\ UNCHANGED inviteVars

----------------------------------------------------------------------------
(* message_parser *)

\* user_ws_mapping as the dict's items, in insertion order.
InMap(m, u) == \E i \in DOMAIN m : m[i].uid = u
Lookup(m, u) == IF InMap(m, u) THEN m[CHOOSE i \in DOMAIN m : m[i].uid = u].ws ELSE None

\* user_ws_mapping[user_id] = ws: an existing key keeps its place.
Bind(m, u, c) ==
    IF InMap(m, u)
    THEN [i \in DOMAIN m |-> IF m[i].uid = u THEN [uid |-> u, ws |-> c] ELSE m[i]]
    ELSE Append(m, [uid |-> u, ws |-> c])

\* del user_ws_mapping[user_id]
Unbind(m, u) == SelectSeq(m, LAMBDA e : e.uid # u)

\* for uid, w in user_ws_mapping.items(): if w == ws: ... break
FirstUidFor(m, c) ==
    IF \E i \in DOMAIN m : m[i].ws = c
    THEN m[CHOOSE i \in DOMAIN m :
               m[i].ws = c /\ \A j \in DOMAIN m : m[j].ws = c => i <= j].uid
    ELSE None

\* space_updates.put_nowait / put (the queue is unbounded).  The queue is kept
\* whole; qhead counts the updates taken off it.
Put(rec, ev) == [rec EXCEPT !.space_updates = Append(@, ev)]

\* A disconnect clause that removes the task's own user_id whenever it has one.
UserIdToRemoveOwnFirst(m, c, user_id) ==
    IF user_id # None THEN user_id ELSE FirstUidFor(m, c)

\* The except WebSocketDisconnect clause: the user id to remove is the first
\* one bound to this websocket, replaced by the task's own user_id when that
\* id is not bound at all.
UserIdToRemove(m, c, user_id) ==
    IF user_id # None /\ ~InMap(m, user_id) THEN user_id ELSE FirstUidFor(m, c)

\* The media types with start and stop methods in MediaManager, and the
\* update a start or stop puts on the queue.
MediaTypes == {"audio", "video"}
StreamEvent(k, op) ==
    IF k = "audio"
    THEN (IF op = "start" THEN "AUDIO_STREAM_STARTED" ELSE "AUDIO_STREAM_STOPPED")
    ELSE (IF op = "start" THEN "VIDEO_STREAM_STARTED" ELSE "VIDEO_STREAM_STOPPED")

\* A start that does not look for a stream of the same kind.
start_stream_unchecked(rec, k, u, c) ==
    IF u \notin rec.users THEN rec
    ELSE Put([rec EXCEPT !.active_streams = @ \cup {<<k, u>>}],
             Ev(StreamEvent(k, "start"), u, None, c))

\* start_audio_stream / start_video_stream on the broadcaster rec, called by
\* the parser of c for user u: refused for a user not in users and for a
\* kind the user is streaming already.
start_stream(rec, k, u, c) ==
    IF u \notin rec.users \/ <<k, u>> \in rec.active_streams THEN rec
    ELSE Put([rec EXCEPT !.active_streams = @ \cup {<<k, u>>}],
             Ev(StreamEvent(k, "start"), u, None, c))

\* stop_audio_stream / stop_video_stream
stop_stream(rec, k, u, c) ==
    IF <<k, u>> \notin rec.active_streams THEN rec
    ELSE Put([rec EXCEPT !.active_streams = @ \ {<<k, u>>}],
             Ev(StreamEvent(k, "stop"), u, None, c))

\* cleanup_user_streams: the audio stream of the user is stopped, then the
\* video stream.
cleanup_user_streams(rec, u, c) == stop_stream(stop_stream(rec, "audio", u, c), "video", u, c)

\* A disconnect clause that leaves the media streams of the removed user.
DisconnectCleanupKeepsStreams(rec, r, c) ==
    IF r = None THEN rec
    ELSE Put([rec EXCEPT !.users = @ \ {r}, !.position_map[r] = NoPos],
             Ev("user_left", r, None, c))

\* The removals of the except WebSocketDisconnect clause, on the broadcaster:
\* the user leaves users and position_map, user_left is put and the user's
\* media streams are stopped.
DisconnectCleanup(rec, r, c) ==
    IF r = None THEN rec
    ELSE cleanup_user_streams(Put([rec EXCEPT !.users = @ \ {r}, !.position_map[r] = NoPos],
                                  Ev("user_left", r, None, c)),
                              r, c)

DisconnectUnbind(m, r) == IF r = None THEN m ELSE Unbind(m, r)

\* The parser awaits receive_text and the client has closed the transport:
\* WebSocketDisconnect is raised and its except clause runs.
ParserDisconnect(c) ==
    /\ parser[c].pc = "recv"
    /\ ws[c].client = "closed"
    /\ LET b == route[c].sb
           r == UserIdToRemove(user_ws_mapping, c, parser[c].user_id)
       IN /\ user_ws_mapping' = DisconnectUnbind(user_ws_mapping, r)
          /\ sb' = [sb EXCEPT ![b] = DisconnectCleanup(sb[b], r, c)]
    /\ parser' = [parser EXCEPT ![c].pc = "done", ![c].exit = "disconnect",
                                           ![c].user_id = None]
    /\ UNCHANGED <<space_broadcaster_manager, ws, route, loop, sent, frames, joinedOn>>
    /\ UNCHANGED chatVars
    /\ UNCHANGED inviteVars

\* A send_text of the parser raises because the client has gone.  Starlette
\* raises WebSocketDisconnect or another exception depending on its version
\* and on the server: either the disconnect clause runs, or the except
\* Exception clause, which only logs.  rec and m are the broadcaster and the
\* user map as the handler left them.
ParserSendFailed(c, b, rec, m) ==
    \/ LET r == UserIdToRemove(m, c, parser[c].user_id)
       IN /\ user_ws_mapping' = DisconnectUnbind(m, r)
          /\ sb' = [sb EXCEPT ![b] = DisconnectCleanup(rec, r, c)]
          /\ parser' = [parser EXCEPT ![c].pc = "done", ![c].exit = "disconnect",
                                           ![c].user_id = None]
    \/ /\ user_ws_mapping' = m
       /\ sb' = [sb EXCEPT ![b] = rec]
       /\ parser' = [parser EXCEPT ![c].pc = "done", ![c].exit = "exception",
                                    ![c].user_id = None]

\* A join frame, up to "await get_user_by_id".  user_id is assigned from the
\* frame before any check; u = None is a frame without user_id, s = None one
\* without space_id.
ParserJoin(c, u, s) ==
    /\ parser[c].pc = "recv"
    /\ ws[c].client = "open"
    /\ frames > 0
    /\ frames' = frames - 1
    /\ LET b == route[c].sb IN
       IF u = None \/ s = None
       THEN \* error "Invalid join message"; continue
            /\ parser' = [parser EXCEPT ![c].user_id = u]
            /\ sent' = Reply(sent, c, Frame("error", "Invalid join message"))
            /\ UNCHANGED <<user_ws_mapping, ws>>
       ELSE IF s # sb[b].space_id
       THEN \* error "Mismatched space_id"; ws.close(); return
            /\ parser' = [parser EXCEPT ![c].user_id = None, ![c].pc = "done",
                                        ![c].exit = "return"]
            /\ ws' = [ws EXCEPT ![c].app = "closed"]
            /\ sent' = Reply(sent, c, Frame("error", "Mismatched space_id"))
            /\ UNCHANGED user_ws_mapping
       ELSE /\ user_ws_mapping' = Bind(user_ws_mapping, u, c)
            /\ parser' = [parser EXCEPT ![c].user_id = u, ![c].pc = "join_db"]
            /\ UNCHANGED <<ws, sent>>
    /\ UNCHANGED <<space_broadcaster_manager, sb, route, loop, joinedOn>>
    /\ UNCHANGED chatVars
    /\ UNCHANGED inviteVars

\* A join that goes on to the user_joined put without writing space_state.
ParserJoinLookupNoState(c) ==
    /\ parser[c].pc = "join_db"
    /\ get_user_by_id(parser[c].user_id)
    /\ LET b == route[c].sb
           u == parser[c].user_id
       IN sb' = [sb EXCEPT ![b] = [sb[b] EXCEPT !.users = @ \cup {u},
                                                !.position_map[u] = <<0, 0>>]]
    /\ joinedOn' = [joinedOn EXCEPT ![c] = @ \cup {parser[c].user_id}]
    /\ parser' = [parser EXCEPT ![c].pc = "join_sent"]
    /\ UNCHANGED <<space_broadcaster_manager, user_ws_mapping, ws, route, loop, sent,
                   frames>>
    /\ UNCHANGED chatVars
    /\ UNCHANGED inviteVars

\* The join after get_user_by_id (and, the first time, get_space_by_id for
\* map_id).  No row: error, ws.close(), return.  Otherwise the user goes into
\* users and position_map and space_state is written to the joining
\* connection; send_text is the next suspension.
ParserJoinLookup(c) ==
    /\ parser[c].pc = "join_db"
    /\ LET b == route[c].sb
           u == parser[c].user_id
       IN IF ~get_user_by_id(u)
          THEN IF CanSend(c)
               THEN /\ parser' = [parser EXCEPT ![c].pc = "done", ![c].exit = "return",
                                                ![c].user_id = None]
                    /\ ws' = [ws EXCEPT ![c].app = "closed"]
                    /\ sent' = Reply(sent, c, Frame("error", "User not found"))
                    /\ UNCHANGED <<user_ws_mapping, sb, joinedOn>>
               ELSE /\ ParserSendFailed(c, b, sb[b], user_ws_mapping)
                    /\ UNCHANGED <<ws, sent, joinedOn>>
          ELSE LET rec == [sb[b] EXCEPT !.users = @ \cup {u},
                                        !.position_map[u] = <<0, 0>>]
               IN IF CanSend(c)
                  THEN /\ sb' = [sb EXCEPT ![b] = rec]
                       /\ sent' = [sent EXCEPT ![c].states = @ + 1]
                       /\ joinedOn' = [joinedOn EXCEPT ![c] = @ \cup {u}]
                       /\ parser' = [parser EXCEPT ![c].pc = "join_sent"]
                       /\ UNCHANGED <<user_ws_mapping, ws>>
                  ELSE /\ ParserSendFailed(c, b, rec, user_ws_mapping)
                       /\ UNCHANGED <<ws, sent, joinedOn>>
    /\ UNCHANGED <<space_broadcaster_manager, route, loop, frames>>
    /\ UNCHANGED chatVars
    /\ UNCHANGED inviteVars

\* The join after send_text(space_state): user_joined is put on the queue with
\* exclude_ws the joining websocket.
ParserJoinEnqueue(c) ==
    /\ parser[c].pc = "join_sent"
    /\ LET b == route[c].sb IN
       sb' = [sb EXCEPT ![b] = Put(sb[b], Ev("user_joined", parser[c].user_id, c, c))]
    /\ parser' = [parser EXCEPT ![c].pc = "recv"]
    /\ UNCHANGED <<space_broadcaster_manager, user_ws_mapping, ws, route, loop, sent,
                   frames, joinedOn>>
    /\ UNCHANGED chatVars
    /\ UNCHANGED inviteVars

\* The coordinates a position_move frame carries.
MoveTo == <<3, 4>>

\* A position_move frame: u is the frame's user_id (None: a frame without it,
\* answered by an error).  The ack goes to the sender, position_map[u] is set
\* and position_update is put on the queue with no exclusion.
ParserMove(c, u) ==
    /\ parser[c].pc = "recv"
    /\ ws[c].client = "open"
    /\ frames > 0
    /\ frames' = frames - 1
    /\ LET b == route[c].sb IN
       IF u = None
       THEN /\ sent' = Reply(sent, c, Frame("error", "Invalid message"))
            /\ UNCHANGED sb
       ELSE /\ sent' = Reply(sent, c, Frame("position_move_ack", u))
            /\ sb' = [sb EXCEPT ![b] = Put([sb[b] EXCEPT !.position_map[u] = MoveTo],
                                           Ev("position_update", u, None, c))]
    /\ UNCHANGED <<space_broadcaster_manager, user_ws_mapping, ws, route, parser, loop,
                   joinedOn>>
    /\ UNCHANGED chatVars
    /\ UNCHANGED inviteVars

\* A left frame: ws.close(code=1000); the loop goes on, receive_text raises
\* RuntimeError on the closed websocket and the parser breaks out of its loop.
ParserLeft(c) ==
    /\ parser[c].pc = "recv"
    /\ ws[c].client = "open"
    /\ frames > 0
    /\ frames' = frames - 1
    /\ ws' = [ws EXCEPT ![c].app = "closed"]
    /\ parser' = [parser EXCEPT ![c].pc = "done", ![c].exit = "left",
                                 ![c].user_id = None]
    /\ UNCHANGED <<space_broadcaster_manager, user_ws_mapping, sb, route, loop, sent,
                   joinedOn>>
    /\ UNCHANGED chatVars
    /\ UNCHANGED inviteVars

\* A frame that is not JSON: json.loads raises, the except Exception clause
\* logs and the parser ends.
ParserBadFrame(c) ==
    /\ parser[c].pc = "recv"
    /\ ws[c].client = "open"
    /\ frames > 0
    /\ frames' = frames - 1
    /\ parser' = [parser EXCEPT ![c].pc = "done", ![c].exit = "exception",
                                 ![c].user_id = None]
    /\ UNCHANGED <<space_broadcaster_manager, user_ws_mapping, sb, ws, route, loop, sent,
                   joinedOn>>
    /\ UNCHANGED chatVars
    /\ UNCHANGED inviteVars

----------------------------------------------------------------------------
(* media.py: MediaManager, called by the parser task *)

\* A webrtc_signal frame that puts the signal on the space's queue when
\* the target has no connection.
ParserSignalQueues(c, to) ==
    /\ parser[c].pc = "recv"
    /\ ws[c].client = "open"
    /\ frames > 0
    /\ frames' = frames - 1
    /\ LET b == route[c].sb
           from == parser[c].user_id
           target == Lookup(user_ws_mapping, to)
       IN IF to = None
          THEN UNCHANGED <<parser, sent, sb>>
          ELSE IF ~(from \in sb[b].users /\ to \in sb[b].users)
          THEN /\ parser' = [parser EXCEPT ![c].result = "Users not in same space"]
               /\ UNCHANGED <<sent, sb>>
          ELSE IF target = None
          THEN /\ parser' = [parser EXCEPT ![c].result = "Target user is not connected"]
               /\ sb' = [sb EXCEPT ![b] = Put(sb[b], Ev("WEBRTC_SIGNAL", from, None, c))]
               /\ UNCHANGED sent
          ELSE IF CanSend(target)
          THEN /\ parser' = [parser EXCEPT ![c].result = "Signal sent"]
               /\ sent' = Reply(sent, target, Frame("WEBRTC_SIGNAL", from))
               /\ UNCHANGED sb
          ELSE /\ parser' = [parser EXCEPT ![c].result = "send_text raised"]
               /\ UNCHANGED <<sent, sb>>
    /\ UNCHANGED <<space_broadcaster_manager, user_ws_mapping, ws, route, loop, joinedOn>>
    /\ UNCHANGED chatVars
    /\ UNCHANGED inviteVars

\* A webrtc_signal frame with to_user_id to (None: a frame without it, which
\* is only logged) and a signal_type.  handle_webrtc_signal: both users must
\* be in the broadcaster's users and the target a key of user_ws_mapping; the
\* signal is written to the target's websocket.  A send_text that raises is
\* caught and logged.  result is what the parser gets back.
ParserSignal(c, to) ==
    /\ parser[c].pc = "recv"
    /\ ws[c].client = "open"
    /\ frames > 0
    /\ frames' = frames - 1
    /\ LET b == route[c].sb
           from == parser[c].user_id
           target == Lookup(user_ws_mapping, to)
       IN IF to = None
          THEN UNCHANGED <<parser, sent>>
          ELSE IF ~(from \in sb[b].users /\ to \in sb[b].users)
          THEN /\ parser' = [parser EXCEPT ![c].result = "Users not in same space"]
               /\ UNCHANGED sent
          ELSE IF target = None
          THEN /\ parser' = [parser EXCEPT ![c].result = "Target user is not connected"]
               /\ UNCHANGED sent
          ELSE IF CanSend(target)
          THEN /\ parser' = [parser EXCEPT ![c].result = "Signal sent"]
               /\ sent' = Reply(sent, target, Frame("WEBRTC_SIGNAL", from))
          ELSE /\ parser' = [parser EXCEPT ![c].result = "send_text raised"]
               /\ UNCHANGED sent
    /\ UNCHANGED <<space_broadcaster_manager, user_ws_mapping, sb, ws, route, loop, joinedOn>>
    /\ UNCHANGED chatVars
    /\ UNCHANGED inviteVars

\* What a start or stop call returns (the error, or the stream id).
stream_result(rec, k, u, op) ==
    IF op = "start"
    THEN (IF u \notin rec.users THEN "User not in space"
          ELSE IF <<k, u>> \in rec.active_streams THEN "Already streaming"
          ELSE "stream_id")
    ELSE (IF <<k, u>> \notin rec.active_streams THEN "User not streaming"
          ELSE "stream_id")

\* A start_audio_stream, start_video_stream, stop_audio_stream or
\* stop_video_stream frame: the parser calls the media manager for its
\* user_id.  The parser discards what the call returns; result keeps it.
ParserStream(c, k, op) ==
    /\ parser[c].pc = "recv"
    /\ ws[c].client = "open"
    /\ frames > 0
    /\ frames' = frames - 1
    /\ LET b == route[c].sb
           u == parser[c].user_id
       IN /\ sb' = [sb EXCEPT ![b] = IF op = "start" THEN start_stream(sb[b], k, u, c)
                                     ELSE stop_stream(sb[b], k, u, c)]
          /\ parser' = [parser EXCEPT ![c].result = stream_result(sb[b], k, u, op)]
    /\ UNCHANGED <<space_broadcaster_manager, user_ws_mapping, ws, route, loop, sent,
                   joinedOn>>
    /\ UNCHANGED chatVars
    /\ UNCHANGED inviteVars

\* A start_screen_stream or stop_screen_stream frame: MediaManager has no
\* such method, the AttributeError reaches the except Exception clause and
\* the parser ends.
ParserScreenStream(c) ==
    /\ parser[c].pc = "recv"
    /\ ws[c].client = "open"
    /\ frames > 0
    /\ frames' = frames - 1
    /\ parser' = [parser EXCEPT ![c].pc = "done", ![c].exit = "exception",
                                 ![c].user_id = None]
    /\ UNCHANGED <<space_broadcaster_manager, user_ws_mapping, sb, ws, route, loop, sent,
                   joinedOn>>
    /\ UNCHANGED chatVars
    /\ UNCHANGED inviteVars

----------------------------------------------------------------------------
(* chat.py: MessagePipeline, run by the parser task for send_chat_message   *)
(* and send_private_message frames, and its detached persistence tasks.     *)
(* RedisCache.initialize always ends with redis_client = None (aioredis is  *)
(* a local name of __init__), so the cache is the in-memory dict and its    *)
(* save and delete neither fail nor suspend.                                *)

\* Field(..., max_length=5000) of MessageValidator.content
MaxContent == 5000

\* _persist_with_retry(message, max_retries = 5)
PersistRetries == 5

\* _cache_with_retry(message, max_retries=3)
CacheRetries == 3

\* The content lengths a chat frame may have.
ContentLengths == {0, 1, MaxContent, MaxContent + 1}

\* get_space_by_id: every space of the model has a row.
get_space_by_id(s) == s \in Spaces

\* A validator whose upper bound on the content length is exclusive.
validate_message_exclusive(sender_id, message_type, n, r) ==
    /\ sender_id # None
    /\ 1 <= n /\ n < MaxContent
    /\ message_type = "private" => r # None

\* MessageValidator.validate_message on the frame's data after the parser has
\* set sender_id (its user_id) and, for the space kind, space_id; n is the
\* length of content, r the receiver_id (None: absent).
validate_message(sender_id, message_type, n, r) ==
    /\ sender_id # None
    /\ 1 <= n /\ n <= MaxContent
    /\ message_type = "private" => r # None

\* An authentication that looks at the sender only.
authenticate_sender_only(sender_id, message_type, space_id, r) ==
    get_user_by_id(sender_id)

\* _authenticate_message: the sender resolves, and the space (space kind) or
\* the receiver (private kind) does.
authenticate_message(sender_id, message_type, space_id, r) ==
    /\ get_user_by_id(sender_id)
    /\ message_type = "space" => get_space_by_id(space_id)
    /\ message_type = "private" => get_user_by_id(r)

\* Message(...) as process_message creates it.  passed (the statuses it has
\* had), saves (the cache.save calls made for it), attempts (the
\* save_message calls made for it), raised (something
\* raised in its broadcast stage), result (what process_message returned), by
\* (the sending connection) and persist (its persistence task: "none", "run"
\* or "done") are not fields of the dataclass.
NewMessage(d, c) ==
    [sender_id |-> d.sender_id, message_type |-> d.message_type,
     receiver_id |-> d.receiver_id, content |-> d.content,
     status |-> "validated", passed |-> <<"validated">>, saves |-> 0, attempts |-> 0,
     raised |-> FALSE, result |-> None, by |-> c, persist |-> "none"]

\* message.status = ...
SetStatus(rec, s) == [rec EXCEPT !.status = s, !.passed = Append(@, s)]

\* The row of message id m in the messages table, as a set (empty: no row).
Row(m) == {r \in messages : r.message_id = m}

\* INSERT ... ON CONFLICT (message_id) DO UPDATE SET status
Upsert(rows, m, s) ==
    {r \in rows : r.message_id # m} \cup {[message_id |-> m, status |-> s]}

\* A send_chat_message or send_private_message frame with content of length n
\* and receiver_id r: message_data is validated; invalid data is answered by
\* an error, valid data goes on to _authenticate_message, which suspends in
\* get_user_by_id.
ParserChat(c, message_type, n, r) ==
    /\ parser[c].pc = "recv"
    /\ ws[c].client = "open"
    /\ frames > 0
    /\ frames' = frames - 1
    /\ LET d == [sender_id |-> parser[c].user_id, message_type |-> message_type,
                 receiver_id |-> r, content |-> n] IN
       IF validate_message(parser[c].user_id, message_type, n, r)
       THEN /\ parser' = [parser EXCEPT ![c].pc = "chat_auth", ![c].data = d]
            /\ UNCHANGED <<user_ws_mapping, sb, sent>>
       ELSE IF CanSend(c)
            THEN /\ parser' = [parser EXCEPT ![c].data = d]
                 /\ sent' = Reply(sent, c, Frame("error", "Validation failed"))
                 /\ UNCHANGED <<user_ws_mapping, sb>>
            ELSE /\ ParserSendFailed(c, route[c].sb, sb[route[c].sb], user_ws_mapping)
                 /\ UNCHANGED sent
    /\ UNCHANGED <<space_broadcaster_manager, ws, route, loop, joinedOn>>
    /\ UNCHANGED chatVars
    /\ UNCHANGED inviteVars

\* A process_message that gives up when the cache stage returned False.
AfterCacheFatal(cache_success) == IF cache_success THEN "chat_bcast" ELSE "recv"

\* process_message after _cache_with_retry: whatever it returned (False is
\* only logged), _broadcast_message runs, up to its "await get_user_by_id".
AfterCache(cache_success) == "chat_bcast"

\* One pass of the loop of _cache_with_retry on the Message rec: cache.save
\* returns save_ok, and True sets status cached.
CacheSave(rec, save_ok) ==
    LET r == [rec EXCEPT !.saves = @ + 1]
    IN IF save_ok THEN SetStatus(r, "cached") ELSE r

\* Where the parser is after that pass, rec being the Message after it: at the
\* sleep before the next pass, or past the stage.
CachePc(rec, save_ok) ==
    IF save_ok THEN AfterCache(TRUE)
    ELSE IF rec.saves = CacheRetries THEN AfterCache(FALSE)
    ELSE "chat_cache"

\* process_message after _authenticate_message.  Failure: "Authentication
\* failed" is returned and the parser sends the error.  Success: the Message
\* is created and the cache stage makes its first save of msg:{id}.  A save on
\* the in-memory dict does not fail by itself: save_ok = FALSE is a fault of
\* the cache backend.
ParserChatAuth(c, save_ok) ==
    /\ parser[c].pc = "chat_auth"
    /\ LET b == route[c].sb
           d == parser[c].data
           id == Len(message) + 1
           rec == CacheSave(NewMessage(d, c), save_ok)
       IN IF ~authenticate_message(d.sender_id, d.message_type, sb[b].space_id,
                                   d.receiver_id)
          THEN /\ save_ok
               /\ IF CanSend(c)
                  THEN /\ parser' = [parser EXCEPT ![c].pc = "recv", ![c].data = NoData]
                       /\ sent' = Reply(sent, c, Frame("error", "Authentication failed"))
                       /\ UNCHANGED <<user_ws_mapping, sb>>
                  ELSE /\ ParserSendFailed(c, b, sb[b], user_ws_mapping)
                       /\ UNCHANGED sent
               /\ UNCHANGED chatVars
          ELSE /\ message' = Append(message, rec)
               /\ in_memory_cache' = IF save_ok THEN in_memory_cache \cup {id}
                                     ELSE in_memory_cache
               /\ parser' = [parser EXCEPT ![c].pc = CachePc(rec, save_ok), ![c].msg = id]
               /\ UNCHANGED <<user_ws_mapping, sb, sent, messages, db_retry_queue>>
    /\ UNCHANGED <<space_broadcaster_manager, ws, route, loop, frames, joinedOn>>
    /\ UNCHANGED inviteVars

\* The next pass of _cache_with_retry, after its sleep.
ParserChatCache(c, save_ok) ==
    /\ parser[c].pc = "chat_cache"
    /\ LET m == parser[c].msg
           rec == CacheSave(message[m], save_ok)
       IN /\ message' = [message EXCEPT ![m] = rec]
          /\ in_memory_cache' = IF save_ok THEN in_memory_cache \cup {m}
                                ELSE in_memory_cache
          /\ parser' = [parser EXCEPT ![c].pc = CachePc(rec, save_ok)]
    /\ UNCHANGED <<space_broadcaster_manager, user_ws_mapping, sb, ws, route, loop, sent,
                   frames, joinedOn, messages, db_retry_queue>>
    /\ UNCHANGED inviteVars

\* A process_message that starts the persistence task whatever the broadcast
\* stage returned.
PersistTaskAlways(broadcast_success) == "run"

\* process_message: asyncio.create_task(_persist_with_retry) only after a
\* broadcast stage that returned True.
PersistTask(broadcast_success) == IF broadcast_success THEN "run" ELSE "none"

\* A rollback that leaves the cache entry.
RollbackKeepsCache(cache, m) == cache

\* _rollback_message: cache.delete(msg:{id})
RollbackCache(cache, m) == cache \ {m}

\* _broadcast_message after get_user_by_id and the rest of process_message.
\* Space kind: the event is put on the broadcaster's queue; put_ok = FALSE is a
\* put that raises.  Private kind: for a bound receiver and for a bound sender
\* event.to_json(cls=CustomEncoder) raises TypeError (UserEvent.to_json takes
\* no argument); the inner except clauses log it, nothing is written to
\* either connection and the stage returns True.
\* Then: on True, status broadcast and the persistence task; on False,
\* _rollback_message, "Broadcast failed" and the parser's error reply.
ParserChatBroadcast(c, put_ok) ==
    /\ parser[c].pc = "chat_bcast"
    /\ LET b == route[c].sb
           m == parser[c].msg
           rec == message[m]
           private == rec.message_type = "private"
           raises == IF private
                     THEN InMap(user_ws_mapping, rec.receiver_id)
                              \/ InMap(user_ws_mapping, rec.sender_id)
                     ELSE ~put_ok
           success == private \/ put_ok
           rec1 == [rec EXCEPT !.raised = raises, !.persist = PersistTask(success)]
           sb1 == IF ~private /\ put_ok
                  THEN Put(sb[b], Ev("chat_message", rec.sender_id, None, c))
                  ELSE sb[b]
       IN /\ private => put_ok
          /\ IF success
             THEN /\ message' = [message EXCEPT
                                    ![m] = [SetStatus(rec1, "broadcast") EXCEPT !.result = "ok"]]
                  /\ in_memory_cache' = in_memory_cache
                  /\ sb' = [sb EXCEPT ![b] = sb1]
                  /\ parser' = [parser EXCEPT ![c].pc = "recv", ![c].data = NoData,
                                              ![c].msg = 0]
                  /\ UNCHANGED <<user_ws_mapping, sent>>
             ELSE /\ message' = [message EXCEPT
                                    ![m] = [SetStatus(rec1, "rolled_back") EXCEPT
                                               !.result = "failed"]]
                  /\ in_memory_cache' = RollbackCache(in_memory_cache, m)
                  /\ IF CanSend(c)
                     THEN /\ parser' = [parser EXCEPT ![c].pc = "recv", ![c].data = NoData,
                                                      ![c].msg = 0]
                          /\ sent' = Reply(sent, c, Frame("error", "Broadcast failed"))
                          /\ UNCHANGED <<user_ws_mapping, sb>>
                     ELSE /\ ParserSendFailed(c, b, sb[b], user_ws_mapping)
                          /\ UNCHANGED sent
    /\ UNCHANGED <<space_broadcaster_manager, ws, route, loop, frames, joinedOn,
                   messages, db_retry_queue>>
    /\ UNCHANGED inviteVars

\* One pass of the loop of _persist_with_retry for message m: save_message
\* returns ok.  True: the row is written with the status the object has at
\* the call, then status = persisted and the cache entry is deleted.  False:
\* sleep and try again, or after the last attempt put the message on
\* db_retry_queue.
PersistAttempt(m, ok) ==
    /\ m \in DOMAIN message
    /\ message[m].persist = "run"
    /\ LET rec == [message[m] EXCEPT !.attempts = @ + 1] IN
       IF ok
       THEN /\ messages' = Upsert(messages, m, rec.status)
            /\ message' = [message EXCEPT
                              ![m] = [SetStatus(rec, "persisted") EXCEPT !.persist = "done"]]
            /\ in_memory_cache' = in_memory_cache \ {m}
            /\ UNCHANGED db_retry_queue
       ELSE /\ messages' = messages
            /\ in_memory_cache' = in_memory_cache
            /\ IF rec.attempts = PersistRetries
               THEN /\ message' = [message EXCEPT ![m] = [rec EXCEPT !.persist = "done"]]
                    /\ db_retry_queue' = Append(db_retry_queue, m)
               ELSE /\ message' = [message EXCEPT ![m] = rec]
                    /\ UNCHANGED db_retry_queue
    /\ UNCHANGED <<space_broadcaster_manager, user_ws_mapping, sb, ws, route, parser, loop,
                   sent, frames, joinedOn>>
    /\ UNCHANGED inviteVars

----------------------------------------------------------------------------
(* space_broadcaster.start: the broadcast loop *)

\* "for subscriber in self.subscribers" reads the live list by index: the next
\* item after place idx that is not exclude_ws, 0 when the list is exhausted.
NextIdx(subs, idx, exclude_ws) ==
    IF \E j \in (idx + 1)..Len(subs) : subs[j] # exclude_ws
    THEN CHOOSE j \in (idx + 1)..Len(subs) :
             /\ subs[j] # exclude_ws
             /\ \A k \in (idx + 1)..Len(subs) : subs[k] # exclude_ws => j <= k
    ELSE 0

\* The fan-out of lp.update from place idx on, up to the next send_text (the
\* next suspension) or to the end of the list, where the subscribers whose
\* send raised are removed and the loop tests _running again.
\* startSubs (the subscribers when the fan-out began) and sentTo (those the
\* update was written to) are history.
FanOut(l, b, rec, lp, idx) ==
    LET subs == rec.subscribers
        j == NextIdx(subs, idx, lp.update.exclude_ws)
    IN IF j = 0
       THEN /\ sb' = [sb EXCEPT ![b] =
                        [rec EXCEPT !.subscribers =
                            SelectSeq(@, LAMBDA w : w \notin lp.disconnected)]]
            /\ loop' = [loop EXCEPT ![l] =
                          [NoLoop EXCEPT !.pc = IF rec.running THEN "get" ELSE "done"]]
            /\ sent' = sent
       ELSE /\ sb' = [sb EXCEPT ![b] = rec]
            /\ IF CanSend(subs[j])
               THEN /\ sent' = [sent EXCEPT ![subs[j]].updates = Append(@, lp.seq)]
                    /\ loop' = [loop EXCEPT ![l] =
                                  [lp EXCEPT !.pc = "sending", !.idx = j,
                                             !.sentTo = @ \cup {subs[j]}]]
               ELSE /\ sent' = sent
                    /\ loop' = [loop EXCEPT ![l] =
                                  [lp EXCEPT !.pc = "sending", !.idx = j,
                                             !.disconnected = @ \cup {subs[j]}]]

\* space_updates.get() returns an update: with _running and subscribers it is
\* fanned out, otherwise it is dropped.
LoopTake(l) ==
    /\ loop[l].pc = "get"
    /\ ~loop[l].cancel
    /\ LET b == route[l].sb
           n == sb[b].qhead + 1
       IN /\ n <= Len(sb[b].space_updates)
          /\ LET rec == [sb[b] EXCEPT !.qhead = n] IN
             IF rec.running /\ rec.subscribers # << >>
             THEN FanOut(l, b, rec,
                         [NoLoop EXCEPT !.update = rec.space_updates[n], !.seq = n,
                                        !.startSubs = Range(rec.subscribers)],
                         0)
             ELSE /\ sb' = [sb EXCEPT ![b] = rec]
                  /\ loop' = [loop EXCEPT ![l] =
                                [NoLoop EXCEPT !.pc = IF rec.running THEN "get" ELSE "done"]]
                  /\ sent' = sent
    /\ UNCHANGED <<space_broadcaster_manager, user_ws_mapping, ws, route, parser,
                   frames, joinedOn>>
    /\ UNCHANGED chatVars
    /\ UNCHANGED inviteVars

\* The loop resumes after a send_text.
LoopResume(l) ==
    /\ loop[l].pc = "sending"
    /\ ~loop[l].cancel
    /\ FanOut(l, route[l].sb, sb[route[l].sb], loop[l], loop[l].idx)
    /\ UNCHANGED <<space_broadcaster_manager, user_ws_mapping, ws, route, parser,
                   frames, joinedOn>>
    /\ UNCHANGED chatVars
    /\ UNCHANGED inviteVars

\* wait_for times out on the empty queue and "while self._running" ends the loop.
LoopTimeout(l) ==
    /\ loop[l].pc = "get"
    /\ ~loop[l].cancel
    /\ LET b == route[l].sb IN
       /\ ~sb[b].running
       /\ sb[b].qhead = Len(sb[b].space_updates)
    /\ loop' = [loop EXCEPT ![l] = [NoLoop EXCEPT !.pc = "done"]]
    /\ UNCHANGED <<space_broadcaster_manager, user_ws_mapping, sb, ws, route, parser,
                   sent, frames, joinedOn>>
    /\ UNCHANGED chatVars
    /\ UNCHANGED inviteVars

\* The cancelled loop task runs: except CancelledError sets _running = False.
LoopCancelled(l) ==
    /\ loop[l].cancel
    /\ loop[l].pc \in {"get", "sending"}
    /\ sb' = [sb EXCEPT ![route[l].sb].running = FALSE]
    /\ loop' = [loop EXCEPT ![l] = [NoLoop EXCEPT !.pc = "done"]]
    /\ UNCHANGED <<space_broadcaster_manager, user_ws_mapping, ws, route, parser,
                   sent, frames, joinedOn>>
    /\ UNCHANGED chatVars
    /\ UNCHANGED inviteVars

----------------------------------------------------------------------------
(* invite.py: InviteManager.  Each method is a coroutine that a handler     *)
(* awaits; an action below is the stretch of one invocation from one await  *)
(* of the Store to the next.  The rows of the notifications table have a    *)
(* payload with a spaceId, and user_spaces has one row per (user, space)    *)
(* (the insert names that key in ON CONFLICT).                              *)

layerVars == <<space_broadcaster_manager, user_ws_mapping, sb, ws, route, parser, loop,
               sent, frames, joinedOn>>

\* An invite manager whose methods await get_connection() before "async with".
get_connection_awaited == "conn"

\* "async with db_manager.get_connection() as conn": get_connection is an
\* "async def", so the call gives a coroutine object that is never awaited.
\* A coroutine is no asynchronous context manager: the statement raises
\* TypeError before any query is sent, inside the method's try block.
get_connection == "raises"

\* expires_at < datetime.utcnow(), and the queries' expires_at IS NULL OR
\* expires_at > NOW().
Expired(row) == \E t \in row.expires_at : t < now
NotExpired(row) == \A t \in row.expires_at : t > now

\* SELECT COUNT(*) FROM user_spaces WHERE space_id = s
current_users(s) == Cardinality({r \in user_spaces : r[2] = s})

\* The unread, unexpired invites of a recipient for a space (existing_invite_query).
existing_invite(to, s) ==
    {n \in InviteIds : /\ notifications[n].user_id = to
                       /\ notifications[n].spaceId = s
                       /\ notifications[n].status = "unread"
                       /\ NotExpired(notifications[n])}

\* space_query of send_invite: the space row, if the sender is its admin or a
\* member of it.
has_access(from, s) == s \in Spaces /\ (admin_user_id(s) = from \/ <<from, s>> \in user_spaces)

\* The rows of a table that another invocation's open transaction has written
\* (notifications ids it has updated, user_spaces rows it has inserted): a
\* write to one of them waits for that transaction to end.
Locked(k, table) ==
    UNION {{call[j].writes[i].key :
                i \in {i \in DOMAIN call[j].writes : call[j].writes[i].table = table}} :
           j \in Calls \ {k}}

\* COMMIT: the writes of a transaction reach the tables.
RECURSIVE Commit(_, _)
Commit(tables, writes) ==
    IF writes = << >> THEN tables
    ELSE LET w == Head(writes)
             t == IF w.table = "notifications"
                  THEN [tables EXCEPT !.notifications[w.key].status = w.status]
                  ELSE [tables EXCEPT !.user_spaces = @ \cup {w.key}]
         IN Commit(t, Tail(writes))

\* What the tables hold when a method is invoked (history).
Seen(k, user, n, to, s) ==
    LET row == IF n = None THEN NoRow ELSE notifications[n]
        sp == IF s # None THEN s ELSE row.spaceId
    IN [row |-> row,
        expired |-> Expired(row),
        member |-> <<user, sp>> \in user_spaces,
        room |-> sp \in Spaces /\ current_users(sp) < max_users(sp),
        pre |-> /\ s \in Spaces
                /\ has_access(user, s)
                /\ current_users(s) < max_users(s)
                /\ to \in users
                /\ <<to, s>> \notin user_spaces
                /\ existing_invite(to, s) = {},
        stale |-> {i \in InviteIds : /\ notifications[i].user_id = user
                                     /\ notifications[i].status = "unread"
                                     /\ Expired(notifications[i])},
        before |-> {j \in Calls \ {k} : call[j].pc = "done"}]

\* A method is invoked: the statement that acquires the connection.  The
\* except clause of the method returns its 'Failed to ...' error.
Invoke(k, op, user, n, to, s, inc, first, failed) ==
    /\ call[k].pc = "idle"
    /\ call' = [call EXCEPT
                  ![k] = [NoCall EXCEPT
                            !.op = op, !.user_id = user, !.notification_id = n,
                            !.to_user_id = to, !.space_id = s, !.include_expired = inc,
                            !.seen = Seen(k, user, n, to, s),
                            !.pc = IF get_connection = "raises" THEN "done" ELSE first,
                            !.result = IF get_connection = "raises" THEN failed ELSE None]]
    /\ UNCHANGED <<notifications, user_spaces, now>>

\* return: the method ends with a result.
Return(k, result) ==
    call' = [call EXCEPT ![k].pc = "done", ![k].result = result, ![k].writes = << >>]

Goto(k, pc) == call' = [call EXCEPT ![k].pc = pc]

\* send_invite, after the connection is acquired: one query per step.
SendInviteStep(k) ==
    LET from == call[k].user_id
        to == call[k].to_user_id
        s == call[k].space_id
    IN CASE call[k].pc = "space_query" ->
              /\ IF ~has_access(from, s)
                 THEN Return(k, "You do not have access to this space or space does not exist")
                 ELSE IF current_users(s) >= max_users(s)
                      THEN Return(k, "Space is full")
                      ELSE Goto(k, "user_query")
              /\ UNCHANGED notifications
         [] call[k].pc = "user_query" ->
              /\ IF to \notin users
                 THEN Return(k, "Recipient user does not exist")
                 ELSE Goto(k, "existing_member")
              /\ UNCHANGED notifications
         [] call[k].pc = "existing_member" ->
              /\ IF <<to, s>> \in user_spaces
                 THEN Return(k, "User is already a member of this space")
                 ELSE Goto(k, "existing_invite")
              /\ UNCHANGED notifications
         [] call[k].pc = "existing_invite" ->
              /\ IF existing_invite(to, s) # {}
                 THEN Return(k, "A pending invite already exists for this user and space")
                 ELSE Goto(k, "sender")
              /\ UNCHANGED notifications
         [] call[k].pc = "sender" ->
              \* sender['username'] of a missing row raises TypeError
              /\ IF from \notin users
                 THEN Return(k, "Failed to send invite")
                 ELSE Goto(k, "insert")
              /\ UNCHANGED notifications
         [] call[k].pc = "insert" ->
              \E n \in InviteIds :
                  /\ notifications[n] = NoRow
                  /\ notifications' =
                         [notifications EXCEPT
                            ![n] = [user_id |-> to, spaceId |-> s, fromUserId |-> from,
                                    status |-> "unread",
                                    expires_at |-> {now + INVITE_EXPIRY_HOURS}]]
                  /\ call' = [call EXCEPT ![k].pc = "done",
                                          ![k].result = "Invite sent successfully",
                                          ![k].notification_id = n]

\* send_invite(from_user_id, to_user_id, space_id)
send_invite(k) ==
    /\ IF call[k].pc = "idle"
       THEN \E from \in {"u1", "u2"}, to \in {"u2", "u3"}, s \in Spaces :
                Invoke(k, "send_invite", from, None, to, s, FALSE, "space_query",
                       "Failed to send invite")
       ELSE /\ call[k].op = "send_invite"
            /\ call[k].pc # "done"
            /\ SendInviteStep(k)
            /\ UNCHANGED <<user_spaces, now>>
    /\ UNCHANGED layerVars
    /\ UNCHANGED chatVars

\* The end of "async with conn.transaction()": COMMIT, then the return.
CommitStep(k) ==
    LET t == Commit([notifications |-> notifications, user_spaces |-> user_spaces],
                    call[k].writes)
    IN /\ notifications' = t.notifications
       /\ user_spaces' = t.user_spaces
       /\ call' = [call EXCEPT ![k].pc = "done", ![k].writes = << >>]

\* UPDATE notifications SET status = ... WHERE id = n, inside the transaction.
Update(k, n, status, result) ==
    /\ n \notin Locked(k, "notifications")
    /\ call' = [call EXCEPT
                  ![k].writes = Append(@, [table |-> "notifications", key |-> n,
                                           status |-> status]),
                  ![k].result = result, ![k].pc = "commit"]

\* accept_invite, after the connection is acquired and the transaction is
\* begun: one statement per step, under READ COMMITTED.
AcceptInviteStep(k) ==
    LET user == call[k].user_id
        n == call[k].notification_id
        invite == notifications[n]
        s == invite.spaceId
    IN CASE call[k].pc = "invite_query" ->
              /\ IF invite = NoRow \/ invite.user_id # user
                 THEN Return(k, "Invite not found")
                 ELSE IF invite.status # "unread"
                      THEN Return(k, "Invite has already been processed")
                      ELSE IF Expired(invite)
                           THEN Goto(k, "expire_update")
                           ELSE Goto(k, "space_query")
              /\ UNCHANGED <<notifications, user_spaces>>
         [] call[k].pc = "expire_update" ->
              /\ Update(k, n, "dismissed", "Invite has expired")
              /\ UNCHANGED <<notifications, user_spaces>>
         [] call[k].pc = "space_query" ->
              /\ IF current_users(s) >= max_users(s)
                 THEN Return(k, "Space is now full")
                 ELSE Goto(k, "existing_member")
              /\ UNCHANGED <<notifications, user_spaces>>
         [] call[k].pc = "existing_member" ->
              /\ IF <<user, s>> \in user_spaces
                 THEN Goto(k, "member_update")
                 ELSE Goto(k, "join")
              /\ UNCHANGED <<notifications, user_spaces>>
         [] call[k].pc = "member_update" ->
              /\ Update(k, n, "read", "You are already a member of this space")
              /\ UNCHANGED <<notifications, user_spaces>>
         [] call[k].pc = "join" ->
              \* INSERT ... ON CONFLICT (user_id, space_id) DO NOTHING
              /\ <<user, s>> \notin Locked(k, "user_spaces")
              /\ call' = [call EXCEPT
                            ![k].writes = IF <<user, s>> \in user_spaces THEN @
                                          ELSE Append(@, [table |-> "user_spaces",
                                                          key |-> <<user, s>>,
                                                          status |-> None]),
                            ![k].pc = "read_update"]
              /\ UNCHANGED <<notifications, user_spaces>>
         [] call[k].pc = "read_update" ->
              /\ Update(k, n, "read", "Invite accepted successfully")
              /\ UNCHANGED <<notifications, user_spaces>>
         [] call[k].pc = "commit" -> CommitStep(k)

\* accept_invite(user_id, notification_id)
accept_invite(k) ==
    /\ IF call[k].pc = "idle"
       THEN \E user \in {"u2", "u3"}, n \in {"n1", "n2"} :
                Invoke(k, "accept_invite", user, n, None, None, FALSE, "invite_query",
                       "Failed to accept invite")
       ELSE /\ call[k].op = "accept_invite"
            /\ call[k].pc # "done"
            /\ AcceptInviteStep(k)
            /\ UNCHANGED now
    /\ UNCHANGED layerVars
    /\ UNCHANGED chatVars

\* decline_invite, after the connection is acquired: no transaction, each
\* statement commits by itself.
DeclineInviteStep(k) ==
    LET user == call[k].user_id
        n == call[k].notification_id
        invite == notifications[n]
    IN CASE call[k].pc = "invite_query" ->
              /\ IF invite = NoRow \/ invite.user_id # user
                 THEN Return(k, "Invite not found")
                 ELSE IF invite.status # "unread"
                      THEN Return(k, "Invite has already been processed")
                      ELSE Goto(k, "dismiss_update")
              /\ UNCHANGED notifications
         [] call[k].pc = "dismiss_update" ->
              /\ n \notin Locked(k, "notifications")
              /\ notifications' = [notifications EXCEPT ![n].status = "dismissed"]
              /\ Return(k, "Invite declined")

\* decline_invite(user_id, notification_id)
decline_invite(k) ==
    /\ IF call[k].pc = "idle"
       THEN \E user \in {"u2", "u3"}, n \in {"n1", "n2"} :
                Invoke(k, "decline_invite", user, n, None, None, FALSE, "invite_query",
                       "Failed to decline invite")
       ELSE /\ call[k].op = "decline_invite"
            /\ call[k].pc # "done"
            /\ DeclineInviteStep(k)
            /\ UNCHANGED <<user_spaces, now>>
    /\ UNCHANGED layerVars
    /\ UNCHANGED chatVars

\* get_user_invites(user_id, include_expired), after the connection is
\* acquired: one SELECT of the user's unread invites.
get_user_invites(k) ==
    /\ IF call[k].pc = "idle"
       THEN \E user \in {"u2", "u3"}, inc \in BOOLEAN :
                Invoke(k, "get_user_invites", user, None, None, None, inc, "query",
                       "Failed to get invites")
       ELSE /\ call[k].op = "get_user_invites"
            /\ call[k].pc = "query"
            /\ call' = [call EXCEPT
                          ![k].invites = {n \in InviteIds :
                                             /\ notifications[n].user_id = call[k].user_id
                                             /\ notifications[n].status = "unread"
                                             /\ \/ call[k].include_expired
                                                \/ NotExpired(notifications[n])},
                          ![k].pc = "done", ![k].result = "success"]
            /\ UNCHANGED <<notifications, user_spaces, now>>
    /\ UNCHANGED layerVars
    /\ UNCHANGED chatVars

\* An hour passes.
Tick ==
    /\ now < MaxClock
    /\ now' = now + 1
    /\ UNCHANGED <<notifications, user_spaces, call>>
    /\ UNCHANGED layerVars
    /\ UNCHANGED chatVars

----------------------------------------------------------------------------

(* Specifications *)

\* The user ids a join frame and a position_move frame may carry.
JoinUserIds == UserIds \cup {None}
MoveUserIds == StoreUsers \cup {None}

\* The two connections of the specifications below; SpecFan uses all of Conns.
Pair == {"c1", "c2"}

\* Connections are named in the order in which they subscribe.
Earlier == [c \in Conns |-> IF c = "c1" THEN {} ELSE IF c = "c2" THEN {"c1"} ELSE Pair]
InOrder(c) == \A d \in Earlier[c] : route[d].sb # None

\* Two connections, every frame the parser and the route handle here, both
\* spaces.
Next ==
    \/ \E c \in Pair : ClientClose(c)
    \/ \E c \in Pair, s \in Spaces : RouteSubscribe(c, s)
    \/ \E c \in Pair : RouteInitData(c)
    \/ \E c \in Pair : RouteFinally(c)
    \/ \E c \in Pair : RouteFinAwait(c)
    \/ \E c \in Pair : RouteStopLoopDone(c)
    \/ \E c \in Pair : RouteStopParserDone(c)
    \/ \E c \in Pair : ParserDisconnect(c)
    \/ \E c \in Pair, u \in JoinUserIds, s \in Spaces : ParserJoin(c, u, s)
    \/ \E c \in Pair : ParserJoinLookup(c)
    \/ \E c \in Pair : ParserJoinEnqueue(c)
    \/ \E c \in Pair, u \in MoveUserIds : ParserMove(c, u)
    \/ \E c \in Pair : ParserLeft(c)
    \/ \E c \in Pair : ParserBadFrame(c)
    \/ \E l \in Pair : LoopTake(l)
    \/ \E l \in Pair : LoopResume(l)
    \/ \E l \in Pair : LoopTimeout(l)
    \/ \E l \in Pair : LoopCancelled(l)

Spec == Init /\ [][Next]_vars

\* Two connections in one space that subscribe, join as a Store user and
\* close their transport.
NextJoin ==
    \/ \E c \in Pair : ClientClose(c)
    \/ \E c \in Pair : InOrder(c) /\ RouteSubscribe(c, "s1")
    \/ \E c \in Pair : RouteInitData(c)
    \/ \E c \in Pair : RouteFinally(c)
    \/ \E c \in Pair : RouteFinAwait(c)
    \/ \E c \in Pair : RouteStopLoopDone(c)
    \/ \E c \in Pair : RouteStopParserDone(c)
    \/ \E c \in Pair : ParserDisconnect(c)
    \/ \E c \in Pair, u \in StoreUsers : ParserJoin(c, u, "s1")
    \/ \E c \in Pair : ParserJoinLookup(c)
    \/ \E c \in Pair : ParserJoinEnqueue(c)
    \/ \E l \in Pair : LoopTake(l)
    \/ \E l \in Pair : LoopResume(l)
    \/ \E l \in Pair : LoopTimeout(l)
    \/ \E l \in Pair : LoopCancelled(l)

SpecJoin == Init /\ [][NextJoin]_vars

\* Two connections in one space that subscribe, join as the one user u2 and
\* close their transport, with one more frame than MaxFrames: both can join.
NextRejoin ==
    \/ \E c \in Pair : ClientClose(c)
    \/ \E c \in Pair : InOrder(c) /\ RouteSubscribe(c, "s1")
    \/ \E c \in Pair : RouteInitData(c)
    \/ \E c \in Pair : RouteFinally(c)
    \/ \E c \in Pair : RouteFinAwait(c)
    \/ \E c \in Pair : RouteStopLoopDone(c)
    \/ \E c \in Pair : RouteStopParserDone(c)
    \/ \E c \in Pair : ParserDisconnect(c)
    \/ \E c \in Pair : ParserJoin(c, "u2", "s1")
    \/ \E c \in Pair : ParserJoinLookup(c)
    \/ \E c \in Pair : ParserJoinEnqueue(c)
    \/ \E l \in Pair : LoopTake(l)
    \/ \E l \in Pair : LoopResume(l)
    \/ \E l \in Pair : LoopTimeout(l)
    \/ \E l \in Pair : LoopCancelled(l)

SpecRejoin == InitWith(MaxFrames + 1) /\ [][NextRejoin]_vars

\* Two connections in one space that subscribe and send position_move frames,
\* with one more frame than MaxFrames: two subscribes and two moves.
NextMove ==
    \/ \E c \in Pair : InOrder(c) /\ RouteSubscribe(c, "s1")
    \/ \E c \in Pair : RouteInitData(c)
    \/ \E c \in Pair, u \in StoreUsers : ParserMove(c, u)
    \/ \E l \in Pair : LoopTake(l)
    \/ \E l \in Pair : LoopResume(l)

SpecMove == InitWith(MaxFrames + 1) /\ [][NextMove]_vars

\* Three connections in one space, with one more frame than MaxFrames: three
\* subscribes and a join.  Only the first subscriber closes its transport.
NextFan ==
    \/ ClientClose("c1")
    \/ \E c \in Conns : InOrder(c) /\ RouteSubscribe(c, "s1")
    \/ \E c \in Conns : RouteInitData(c)
    \/ \E c \in Conns : RouteFinally(c)
    \/ \E c \in Conns : RouteFinAwait(c)
    \/ \E c \in Conns : RouteStopLoopDone(c)
    \/ \E c \in Conns : ParserDisconnect(c)
    \/ \E c \in Conns : ParserJoin(c, "u2", "s1")
    \/ \E c \in Conns : ParserJoinLookup(c)
    \/ \E c \in Conns : ParserJoinEnqueue(c)
    \/ \E l \in Conns : LoopTake(l)
    \/ \E l \in Conns : LoopResume(l)
    \/ \E l \in Conns : LoopCancelled(l)

SpecFan == InitWith(MaxFrames + 1) /\ [][NextFan]_vars

\* Two connections in one space that subscribe, join as a Store user and
\* close, with one more frame than MaxFrames (both can join); the broadcast
\* loops take no update off the queue.
NextBind ==
    \/ \E c \in Pair : ClientClose(c)
    \/ \E c \in Pair : InOrder(c) /\ RouteSubscribe(c, "s1")
    \/ \E c \in Pair : RouteInitData(c)
    \/ \E c \in Pair : RouteFinally(c)
    \/ \E c \in Pair : RouteFinAwait(c)
    \/ \E c \in Pair : RouteStopLoopDone(c)
    \/ \E c \in Pair : RouteStopParserDone(c)
    \/ \E c \in Pair : ParserDisconnect(c)
    \/ \E c \in Pair, u \in StoreUsers : ParserJoin(c, u, "s1")
    \/ \E c \in Pair : ParserJoinLookup(c)
    \/ \E c \in Pair : ParserJoinEnqueue(c)
    \/ \E l \in Pair : LoopTimeout(l)
    \/ \E l \in Pair : LoopCancelled(l)

SpecBind == InitWith(MaxFrames + 1) /\ [][NextBind]_vars

\* One connection that subscribes, joins as a Store user and sends chat
\* frames, with the persistence tasks of its messages.
Solo == {"c1"}
MessageIds == 1..MaxFrames

NextChat ==
    \/ \E c \in Solo : RouteSubscribe(c, "s1")
    \/ \E c \in Solo : RouteInitData(c)
    \/ \E c \in Solo, u \in StoreUsers : ParserJoin(c, u, "s1")
    \/ \E c \in Solo : ParserJoin(c, "u9", None)
    \/ \E c \in Solo : ParserJoinLookup(c)
    \/ \E c \in Solo : ParserJoinEnqueue(c)
    \/ \E c \in Solo, n \in ContentLengths : ParserChat(c, "space", n, None)
    \/ \E c \in Solo, n \in ContentLengths, r \in UserIds \cup {None} :
           ParserChat(c, "private", n, r)
    \/ \E c \in Solo, save_ok \in BOOLEAN : ParserChatAuth(c, save_ok)
    \/ \E c \in Solo, save_ok \in BOOLEAN : ParserChatCache(c, save_ok)
    \/ \E c \in Solo, put_ok \in BOOLEAN : ParserChatBroadcast(c, put_ok)
    \/ \E m \in MessageIds, ok \in BOOLEAN : PersistAttempt(m, ok)
    \/ \E l \in Solo : LoopTake(l)
    \/ \E l \in Solo : LoopResume(l)

SpecChat == Init /\ [][NextChat]_vars

\* One connection that joins as a Store user and sends position_move frames
\* with and without a user_id field.
NextPosition ==
    \/ \E c \in Solo : RouteSubscribe(c, "s1")
    \/ \E c \in Solo : RouteInitData(c)
    \/ \E c \in Solo, u \in StoreUsers : ParserJoin(c, u, "s1")
    \/ \E c \in Solo : ParserJoinLookup(c)
    \/ \E c \in Solo : ParserJoinEnqueue(c)
    \/ \E c \in Solo, u \in MoveUserIds : ParserMove(c, u)
    \/ \E l \in Solo : LoopTake(l)
    \/ \E l \in Solo : LoopResume(l)

SpecPosition == InitWith(MaxFrames + 1) /\ [][NextPosition]_vars

\* Two connections in one space that join as Store users and send
\* webrtc_signal frames, with two more frames than MaxFrames: two subscribes,
\* two joins and a signal.
NextSignal ==
    \/ \E c \in Pair : InOrder(c) /\ RouteSubscribe(c, "s1")
    \/ \E c \in Pair : RouteInitData(c)
    \/ \E c \in Pair, u \in StoreUsers : ParserJoin(c, u, "s1")
    \/ \E c \in Pair : ParserJoinLookup(c)
    \/ \E c \in Pair : ParserJoinEnqueue(c)
    \/ \E c \in Pair, to \in UserIds \cup {None} : ParserSignal(c, to)

SpecSignal == InitWith(MaxFrames + 2) /\ [][NextSignal]_vars

\* One connection that joins as a Store user (or only names one in a join
\* frame without space_id) and starts and stops audio and video streams, with
\* one more frame than MaxFrames: a subscribe, a join and two stream frames.
NextStream ==
    \/ \E c \in Solo : RouteSubscribe(c, "s1")
    \/ \E c \in Solo : RouteInitData(c)
    \/ \E c \in Solo, u \in StoreUsers : ParserJoin(c, u, "s1")
    \/ \E c \in Solo, u \in StoreUsers : ParserJoin(c, u, None)
    \/ \E c \in Solo : ParserJoinLookup(c)
    \/ \E c \in Solo : ParserJoinEnqueue(c)
    \/ \E c \in Solo, k \in MediaTypes, op \in {"start", "stop"} : ParserStream(c, k, op)

SpecStream == InitWith(MaxFrames + 1) /\ [][NextStream]_vars

\* One connection that joins as a Store user and sends audio, video and
\* screen stream frames, with one more frame than MaxFrames: a subscribe, a
\* join, a screen stream frame and a later frame.
NextScreen ==
    \/ \E c \in Solo : RouteSubscribe(c, "s1")
    \/ \E c \in Solo : RouteInitData(c)
    \/ \E c \in Solo, u \in StoreUsers : ParserJoin(c, u, "s1")
    \/ \E c \in Solo : ParserJoinLookup(c)
    \/ \E c \in Solo : ParserJoinEnqueue(c)
    \/ \E c \in Solo, k \in MediaTypes, op \in {"start", "stop"} : ParserStream(c, k, op)
    \/ \E c \in Solo : ParserScreenStream(c)

SpecScreen == InitWith(MaxFrames + 1) /\ [][NextScreen]_vars

\* Two connections in one space that join as Store users, start and stop
\* audio and video streams, send left and close their transport.
NextMedia ==
    \/ \E c \in Pair : ClientClose(c)
    \/ \E c \in Pair : InOrder(c) /\ RouteSubscribe(c, "s1")
    \/ \E c \in Pair : RouteInitData(c)
    \/ \E c \in Pair : RouteFinally(c)
    \/ \E c \in Pair : RouteFinAwait(c)
    \/ \E c \in Pair : RouteStopLoopDone(c)
    \/ \E c \in Pair : RouteStopParserDone(c)
    \/ \E c \in Pair : ParserDisconnect(c)
    \/ \E c \in Pair, u \in StoreUsers : ParserJoin(c, u, "s1")
    \/ \E c \in Pair : ParserJoinLookup(c)
    \/ \E c \in Pair : ParserJoinEnqueue(c)
    \/ \E c \in Pair, k \in MediaTypes, op \in {"start", "stop"} : ParserStream(c, k, op)
    \/ \E c \in Pair : ParserLeft(c)
    \/ \E l \in Pair : LoopCancelled(l)

SpecMedia == Init /\ [][NextMedia]_vars

\* One connection that joins and sends chat frames of every length class,
\* with no fault and no persistence task taking a step.
NextValidate ==
    \/ \E c \in Solo : RouteSubscribe(c, "s1")
    \/ \E c \in Solo : RouteInitData(c)
    \/ \E c \in Solo : ParserJoin(c, "u1", "s1")
    \/ \E c \in Solo : ParserJoinLookup(c)
    \/ \E c \in Solo : ParserJoinEnqueue(c)
    \/ \E c \in Solo, n \in ContentLengths : ParserChat(c, "space", n, None)
    \/ \E c \in Solo, n \in ContentLengths, r \in UserIds \cup {None} :
           ParserChat(c, "private", n, r)
    \/ \E c \in Solo : ParserChatAuth(c, TRUE)
    \/ \E c \in Solo : ParserChatBroadcast(c, TRUE)

SpecValidate == InitWith(MaxFrames + 1) /\ [][NextValidate]_vars

----------------------------------------------------------------------------
\* One connection that subscribes, sends join frames with or without a
\* space_id, and sends space chat frames.
NextSender ==
    \/ \E c \in Solo : RouteSubscribe(c, "s1")
    \/ \E c \in Solo : RouteInitData(c)
    \/ \E c \in Solo, u \in UserIds : ParserJoin(c, u, "s1")
    \/ \E c \in Solo, u \in UserIds : ParserJoin(c, u, None)
    \/ \E c \in Solo : ParserJoinLookup(c)
    \/ \E c \in Solo : ParserJoinEnqueue(c)
    \/ \E c \in Solo, n \in ContentLengths : ParserChat(c, "space", n, None)
    \/ \E c \in Solo, save_ok \in BOOLEAN : ParserChatAuth(c, save_ok)
    \/ \E c \in Solo, save_ok \in BOOLEAN : ParserChatCache(c, save_ok)
    \/ \E c \in Solo, put_ok \in BOOLEAN : ParserChatBroadcast(c, put_ok)

SpecSender == Init /\ [][NextSender]_vars

\* One connection that subscribes, sends join frames naming Store users (the
\* same one or different ones) and closes its transport.
NextDouble ==
    \/ \E c \in Solo : ClientClose(c)
    \/ \E c \in Solo : RouteSubscribe(c, "s1")
    \/ \E c \in Solo : RouteInitData(c)
    \/ \E c \in Solo : RouteFinally(c)
    \/ \E c \in Solo : RouteFinAwait(c)
    \/ \E c \in Solo : RouteStopLoopDone(c)
    \/ \E c \in Solo : ParserDisconnect(c)
    \/ \E c \in Solo, u \in StoreUsers : ParserJoin(c, u, "s1")
    \/ \E c \in Solo : ParserJoinLookup(c)
    \/ \E c \in Solo : ParserJoinEnqueue(c)
    \/ \E l \in Solo : LoopTake(l)
    \/ \E l \in Solo : LoopResume(l)
    \/ \E l \in Solo : LoopCancelled(l)

SpecDouble == Init /\ [][NextDouble]_vars

\* Two connections that subscribe to either space, join it as Store users and
\* send webrtc_signal frames, with two more frames than MaxFrames: two
\* subscribes, two joins and a signal.
NextCross ==
    \/ \E c \in Pair, s \in Spaces : InOrder(c) /\ RouteSubscribe(c, s)
    \/ \E c \in Pair : RouteInitData(c)
    \/ \E c \in Pair, u \in StoreUsers : ParserJoin(c, u, sb[route[c].sb].space_id)
    \/ \E c \in Pair : ParserJoinLookup(c)
    \/ \E c \in Pair : ParserJoinEnqueue(c)
    \/ \E c \in Pair, to \in StoreUsers : ParserSignal(c, to)

SpecCross == InitWith(MaxFrames + 2) /\ [][NextCross]_vars

(* The invite manager *)

\* An invite row of the notifications table, from the sender u1 to a space
\* with a free place.
InviteRow(to, status, expires_at) ==
    [user_id |-> to, spaceId |-> "s2", fromUserId |-> "u1", status |-> status,
     expires_at |-> expires_at]

\* The tables hold an invite of u2 in any status, with an expiry time or
\* none, and may hold an unread invite of u3.
InitInvite ==
    /\ InitConns(MaxFrames)
    /\ \E st \in {"unread", "read", "dismissed"}, e1, e2 \in {{}, {1}},
          second \in BOOLEAN :
           notifications = [i \in InviteIds |->
                               IF i = "n1" THEN InviteRow("u2", st, e1)
                               ELSE IF i = "n2" /\ second THEN InviteRow("u3", "unread", e2)
                               ELSE NoRow]
    /\ user_spaces = MemberRows
    /\ now = 0
    /\ call = [k \in Calls |-> NoCall]

\* Two invocations of InviteManager methods, in any interleaving, and the clock.
NextInvite ==
    \/ \E k \in Calls : send_invite(k)
    \/ \E k \in Calls : accept_invite(k)
    \/ \E k \in Calls : decline_invite(k)
    \/ \E k \in Calls : get_user_invites(k)
    \/ Tick

SpecInvite == InitInvite /\ [][NextInvite]_vars

----------------------------------------------------------------------------

(* Properties *)

\* The updates of c's broadcaster, and those a predicate selects.
Updates(c) == sb[route[c].sb].space_updates
Places(c, P(_)) == {i \in DOMAIN Updates(c) : P(Updates(c)[i])}

\* The user_joined updates put for a join on c, and the user_left updates put
\* for u by the parser of c.
JoinedBy(c) == Places(c, LAMBDA e : e.event = "user_joined" /\ e.exclude_ws = c)
LeftBy(c, u) == Places(c, LAMBDA e : e.event = "user_left" /\ e.user_id = u /\ e.by = c)

\* u is in none of the tables of c's broadcaster and not in user_ws_mapping.
Absent(c, u) ==
    /\ u \notin sb[route[c].sb].users
    /\ sb[route[c].sb].position_map[u] = NoPos
    /\ ~InMap(user_ws_mapping, u)

\* The step in which the parser task of c ends in the given way.
ParserEnds(c, how) == parser[c].exit = None /\ parser'[c].exit = how

\* The broadcasters that have been constructed.
Constructed == {b \in Conns : sb[b].space_id # None}

\* C1: within one space every subscriber is sent the updates in the order in
\* which they were put on the queue: the queue places of the updates written
\* to a connection only grow.
C1_EnqueueOrderDelivery ==
    \A c \in Conns : \A i, j \in DOMAIN sent[c].updates :
        i < j => sent[c].updates[i] < sent[c].updates[j]

\* C2: every user_joined on the queue for a join on c was put after the
\* space_state of that join was written to c (the n-th put follows the n-th
\* space_state), so a user_joined written to another subscriber follows it too.
C2_StateBeforeJoined ==
    \A c \in Conns : route[c].sb # None =>
        /\ Cardinality(JoinedBy(c)) <= sent[c].states
        /\ \A d \in Conns \ {c} : route[d].sb = route[c].sb =>
               \A k \in Range(sent[d].updates) :
                   k \in JoinedBy(c) =>
                       Cardinality({i \in JoinedBy(c) : i <= k}) <= sent[c].states

\* A user_joined of a join on c has been written to another subscriber.
C2_Witness ==
    \E c \in Conns, d \in Conns :
        /\ c # d
        /\ route[c].sb # None
        /\ route[d].sb = route[c].sb
        /\ sent[c].states > 0
        /\ \E k \in Range(sent[d].updates) : k \in JoinedBy(c)

\* C3: a fan-out writes the update to no connection that is its exclude_ws,
\* and a user_joined is written to every other subscriber: each subscriber
\* the iteration has gone past, in the list since the fan-out began, was
\* written the update (or its send raised, or it is the excluded one).
C3_JoinedSentToAllButSender ==
    \A l \in Conns : loop[l].pc = "sending" =>
        LET lp == loop[l]
            subs == sb[route[l].sb].subscribers
        IN /\ lp.update.exclude_ws \notin lp.sentTo
           /\ lp.update.event = "user_joined" =>
                  \A p \in 1..lp.idx :
                      (p <= Len(subs) /\ subs[p] \in lp.startSubs) =>
                          subs[p] \in lp.sentTo \cup lp.disconnected
                                        \cup {lp.update.exclude_ws}

\* C4: when the parser of a joined connection has handled the close of its
\* transport, every user id joined on the connection is absent from users,
\* position_map and user_ws_mapping, and exactly one user_left for it was put.
C4_CloseRemovesUser ==
    [][\A c \in Conns : ParserEnds(c, "disconnect") =>
           \A u \in joinedOn[c] : Absent(c, u)' /\ Cardinality(LeftBy(c, u))' = 1]_vars

\* C5: when the parser of a joined connection has handled a left frame, the
\* user is absent from users, position_map and user_ws_mapping and a
\* user_left for it was put, as on a transport close.
C5_LeftRemovesUser ==
    [][\A c \in Conns : ParserEnds(c, "left") =>
           \A u \in joinedOn[c] : Absent(c, u)' /\ Cardinality(LeftBy(c, u))' = 1]_vars

\* C6: when the parser of a joined connection ends by an exception or by
\* cancellation, the user is absent from users, position_map and
\* user_ws_mapping and a user_left for it was put.
C6_CleanupOnAnyExit ==
    [][\A c \in Conns : (ParserEnds(c, "exception") \/ ParserEnds(c, "cancelled")) =>
           \A u \in joinedOn[c] : Absent(c, u)' /\ Cardinality(LeftBy(c, u))' >= 1]_vars

\* C7: in every broadcaster the keys of position_map are the keys of users.
C7_PositionsMatchUsers ==
    \A b \in Constructed :
        {u \in UserIds : sb[b].position_map[u] # NoPos} = sb[b].users

\* C8: every connection in a broadcaster's subscribers is a key of its
\* parser_tasks.
C8_SubscribersHaveParser ==
    \A b \in Conns : Range(sb[b].subscribers) \subseteq Range(sb[b].parser_tasks)

\* The loop has removed a subscriber whose send raised, the route has not
\* cleaned that connection up yet, and another subscriber remains.
C8_Witness ==
    \E b \in Conns :
        /\ sb[b].subscribers # << >>
        /\ Range(sb[b].parser_tasks) \ Range(sb[b].subscribers) # {}

\* C9: a user id is a key of users in at most one broadcaster that
\* space_broadcaster_manager holds.
C9_UserInOneSpace ==
    \A u \in UserIds :
        Cardinality({s \in Spaces :
                        /\ space_broadcaster_manager[s] # None
                        /\ u \in sb[space_broadcaster_manager[s]].users}) <= 1

\* C10: a binding u -> c of user_ws_mapping (the join that made it has got its
\* answer from the users table) is to a connection the server has not closed,
\* whose parser is running, and whose broadcaster has u in users.
C10_BindingIsLive ==
    \A i \in DOMAIN user_ws_mapping :
        LET u == user_ws_mapping[i].uid
            c == user_ws_mapping[i].ws
        IN parser[c].pc # "join_db" =>
               /\ ~AppClosed(c)
               /\ ~ParserDone(c)
               /\ u \in sb[route[c].sb].users

\* b is the broadcaster space_broadcaster_manager holds for its space.
Registered(b) == \E s \in Spaces : sb[b].space_id = s /\ space_broadcaster_manager[s] = b

\* The start() tasks of broadcaster b that have not ended.
LiveLoops(b) == {l \in Conns : route[l].sb = b /\ ~LoopDone(l)}

\* The routes that run, or wait in, stop() of broadcaster b.
Stopping(b) == {c \in Conns : route[c].sb = b /\
                                 route[c].pc \in {"stop_await_loop", "stop_await_parser"}}

\* C11: start_if_not_running is an atomic check-and-start: at most one
\* broadcast-loop task consumes the queue of a broadcaster.
C11_OneLoopPerBroadcaster ==
    \A b \in Constructed : Cardinality(LiveLoops(b)) <= 1

\* C12: while a connection is in subscribers the broadcaster is neither
\* stopped nor out of space_broadcaster_manager; once every route that
\* subscribed to it has returned it is stopped and out of the registry.
C12_StoppedWithLastSubscriber ==
    \A b \in Constructed :
        /\ sb[b].subscribers # << >> => Registered(b) /\ sb[b].running
        /\ (\A c \in Conns : route[c].sb = b => route[c].pc = "done") =>
               ~Registered(b) /\ ~sb[b].running

\* C13: a subscribe handled while stop() of the space's broadcaster is in
\* progress gets another broadcaster than the one being stopped.
C13_SubscribeDuringStopGetsNew ==
    [][\A d \in Conns : (route[d].sb = None /\ route'[d].sb # None) =>
           Stopping(route'[d].sb) = {}]_vars

\* C14: when a join binds a user id that user_ws_mapping binds to another
\* connection, that superseded connection is closed.
C14_SupersededIsClosed ==
    [][\A i \in DOMAIN user_ws_mapping :
           LET u == user_ws_mapping[i].uid
               a == user_ws_mapping[i].ws
           IN (InMap(user_ws_mapping', u) /\ Lookup(user_ws_mapping', u) # a) =>
                  AppClosed(a)']_vars

\* C15: an entry of user_ws_mapping is removed only by the disconnect cleanup
\* of the connection it is bound to.
C15_UnbindOnlyOwnBinding ==
    [][\A i \in DOMAIN user_ws_mapping :
           LET u == user_ws_mapping[i].uid
               a == user_ws_mapping[i].ws
           IN ~InMap(user_ws_mapping', u) => ParserEnds(a, "disconnect")]_vars

\* The disconnect cleanup of c has run while the user joined on c was bound
\* to another connection, and that binding is still there.
C15_Witness ==
    \E c \in Conns, u \in UserIds :
        /\ parser[c].exit = "disconnect"
        /\ u \in joinedOn[c]
        /\ InMap(user_ws_mapping, u)
        /\ Lookup(user_ws_mapping, u) # c

\* In seq every b comes after some a.
Precedes(seq, a, b) ==
    \A j \in DOMAIN seq : seq[j] = b => \E i \in 1..(j - 1) : seq[i] = a

\* The number of times m is on the dead-letter queue.
Queued(m) == Cardinality({i \in DOMAIN db_retry_queue : db_retry_queue[i] = m})

\* C16: a message has a save_message call, a row in the Store or the status
\* persisted only after it has had the status broadcast.
C16_BroadcastBeforePersisted ==
    \A m \in DOMAIN message :
        /\ Precedes(message[m].passed, "broadcast", "persisted")
        /\ (message[m].attempts > 0 \/ Row(m) # {} \/ message[m].persist # "none")
               => "broadcast" \in Range(message[m].passed)

\* A message was broadcast, then written to the Store and marked persisted.
C16_Witness ==
    \E m \in DOMAIN message :
        /\ message[m].status = "persisted"
        /\ Row(m) # {}

\* C17: a message whose broadcast stage failed (the put on the space queue
\* raised) has no cache entry, has status rolled_back, has no persistence
\* task, no save_message call and no row, and process_message returned failure.
C17_FailedBroadcastIsRolledBack ==
    \A m \in DOMAIN message :
        (message[m].message_type = "space" /\ message[m].raised) =>
            /\ m \notin in_memory_cache
            /\ message[m].status = "rolled_back"
            /\ message[m].result = "failed"
            /\ message[m].persist = "none"
            /\ message[m].attempts = 0
            /\ Row(m) = {}
            /\ Queued(m) = 0

\* The put of a space message raised after the message had been cached, and
\* the sender has gone on to receive its next frame.
C17_Witness ==
    \E m \in DOMAIN message :
        /\ message[m].message_type = "space"
        /\ message[m].raised
        /\ "cached" \in Range(message[m].passed)
        /\ parser[message[m].by].pc = "recv"

\* C18: a message in whose broadcast stage anything raised (the queue put of
\* the space kind, a send to the receiver's or the sender's connection of the
\* private kind) is rolled back, not persisted, and reported as failed.
C18_AnyBroadcastFailureRollsBack ==
    \A m \in DOMAIN message :
        message[m].raised =>
            /\ message[m].status = "rolled_back"
            /\ message[m].result = "failed"
            /\ message[m].persist = "none"
            /\ Row(m) = {}

\* C19: once the persistence task of a message has ended with a successful
\* Store write, the row of the message has status persisted.
C19_RowIsPersisted ==
    \A m \in DOMAIN message :
        (message[m].persist = "done" /\ Row(m) # {}) =>
            \A r \in Row(m) : r.status = "persisted"

\* C20: a message has at most PersistRetries save_message calls and none after
\* the first success; one whose calls all failed has status failed and is on
\* the dead-letter queue exactly once; one that was written is never on it.
C20_RetryBudgetAndDeadLetter ==
    \A m \in DOMAIN message :
        /\ message[m].attempts <= PersistRetries
        /\ Row(m) # {} => message[m].persist = "done" /\ Queued(m) = 0
        /\ (message[m].persist = "done" /\ Row(m) = {}) =>
               /\ message[m].attempts = PersistRetries
               /\ message[m].status = "failed"
               /\ Queued(m) = 1
        /\ message[m].persist # "done" => Queued(m) = 0

\* The cache stage of message m is over without a successful save.
CacheFailed(m) ==
    /\ "cached" \notin Range(message[m].passed)
    /\ ~(parser[message[m].by].pc = "chat_cache" /\ parser[message[m].by].msg = m)

\* C21: a message has at most CacheRetries cache.save calls; one whose saves
\* all failed has no cache entry and goes on to the broadcast stage: it is
\* either still in that stage or has its result, and with a successful
\* broadcast it has status broadcast and its persistence task.
C21_CacheFailureIsNotFatal ==
    \A m \in DOMAIN message :
        /\ message[m].saves <= CacheRetries
        /\ CacheFailed(m) =>
               /\ message[m].saves = CacheRetries
               /\ m \notin in_memory_cache
               /\ \/ parser[message[m].by].pc = "chat_bcast" /\ parser[message[m].by].msg = m
                  \/ message[m].result # None
               /\ message[m].result = "ok" =>
                      /\ "broadcast" \in Range(message[m].passed)
                      /\ message[m].persist # "none"

\* A message whose three saves failed was broadcast and written to the Store.
C21_Witness ==
    \E m \in DOMAIN message :
        /\ CacheFailed(m)
        /\ message[m].saves = CacheRetries
        /\ message[m].passed = <<"validated", "broadcast", "persisted">>
        /\ Row(m) # {}

\* The chat_message updates put on the queue of broadcaster b.
ChatUpdates(b) ==
    {i \in DOMAIN sb[b].space_updates : sb[b].space_updates[i].event = "chat_message"}

\* The space messages sent on the connections of b whose broadcast stage put
\* their update.
Queued1(b) ==
    {m \in DOMAIN message : /\ message[m].message_type = "space"
                            /\ route[message[m].by].sb = b
                            /\ message[m].result = "ok"}

C23_ContentLengthBounds ==
    /\ \A c \in Conns :
           LET d == parser[c].data IN
           /\ (/\ parser[c].pc = "recv"
               /\ d # NoData
               /\ d.sender_id # None
               /\ d.message_type = "private" => d.receiver_id # None)
                  => (d.content < 1 \/ d.content > MaxContent)
           /\ parser[c].pc \in {"chat_auth", "chat_cache", "chat_bcast"}
                  => (1 <= d.content /\ d.content <= MaxContent)
    /\ \A m \in DOMAIN message : 1 <= message[m].content /\ message[m].content <= MaxContent

\* A message of length MaxContent was accepted and then a frame of length
\* MaxContent + 1, valid otherwise, was rejected.
C23_Witness ==
    \E c \in Conns, m \in DOMAIN message :
        /\ message[m].content = MaxContent
        /\ message[m].by = c
        /\ parser[c].pc = "recv"
        /\ parser[c].data.sender_id # None
        /\ parser[c].data.content = MaxContent + 1
        /\ parser[c].data.message_type = "space"

\* C24: a position_move frame without user_id and space_id, received on a
\* connection whose user u has joined, sets position_map[u] to the frame's
\* coordinates, writes position_move_ack to the sender and puts exactly one
\* position_update of u, without exclusion, on the queue.
C24_MoveWithoutIds ==
    [][\A c \in Conns :
           (parser[c].user_id \in joinedOn[c] /\ ParserMove(c, None)) =>
               LET u == parser[c].user_id
                   b == route[c].sb
               IN /\ sb'[b].position_map[u] = MoveTo
                  /\ sent'[c].replies = Append(sent[c].replies, Frame("position_move_ack", u))
                  /\ sb'[b].space_updates =
                         Append(sb[b].space_updates, Ev("position_update", u, None, c))]_vars

\* C25: a join frame rejected for a missing field or a mismatched space_id
\* leaves user_ws_mapping and the broadcaster (users, positions, queue) as
\* they are, and a join rejected because the user has no row leaves the user
\* unbound from the connection, users, positions and the queue as they are.
C25_RejectedJoinChangesNothing ==
    [][/\ \A c \in Conns, u \in JoinUserIds, s \in Spaces \cup {None} :
              (/\ ParserJoin(c, u, s)
               /\ (u = None \/ s = None \/ s # sb[route[c].sb].space_id))
                  => UNCHANGED <<user_ws_mapping, sb>>
       /\ \A c \in Conns :
              (/\ parser[c].pc = "join_db"
               /\ ~get_user_by_id(parser[c].user_id)
               /\ CanSend(c)
               /\ ParserJoinLookup(c))
                  => /\ Lookup(user_ws_mapping', parser[c].user_id) # c
                     /\ sb' = sb]_vars

\* The Store's membership count of s has reached max_users.
Full(s) == Cardinality(get_users_in_space(s)) >= max_users(s)

\* C26: in a space that is full at the Store level no user beyond its members
\* gets into users or positions, is bound to a connection of the space once
\* the join is over, or has a user_joined update on the queue.
C26_FullSpaceRejectsJoin ==
    \A b \in Constructed :
        Full(sb[b].space_id) =>
            \A u \in UserIds \ get_users_in_space(sb[b].space_id) :
                /\ u \notin sb[b].users
                /\ sb[b].position_map[u] = NoPos
                /\ \A c \in Conns :
                       (route[c].sb = b /\ parser[c].pc # "join_db")
                           => Lookup(user_ws_mapping, u) # c
                /\ \A i \in DOMAIN sb[b].space_updates :
                       ~(sb[b].space_updates[i].event = "user_joined"
                             /\ sb[b].space_updates[i].user_id = u)

\* C27: a webrtc_signal from user a to another user b, both in the space's
\* users and b bound to a connection, writes exactly one WEBRTC_SIGNAL frame
\* to b's connection, writes nothing to a's connection or any other, and
\* puts nothing on the queue.
C27_SignalReachesOnlyTarget ==
    [][\A c \in Conns, to \in UserIds :
           LET a == parser[c].user_id
               b == route[c].sb
               t == Lookup(user_ws_mapping, to)
           IN (/\ ParserSignal(c, to)
               /\ a # to
               /\ a \in sb[b].users /\ to \in sb[b].users
               /\ t # None)
                  => /\ t # c
                     /\ sent'[t].replies = Append(sent[t].replies, Frame("WEBRTC_SIGNAL", a))
                     /\ \A d \in Conns \ {t} : sent'[d] = sent[d]
                     /\ sb' = sb]_vars

\* C28: a webrtc_signal whose target is not a key of user_ws_mapping fails:
\* nothing is written to any connection, nothing is put on a queue and
\* nothing but the parser's result is changed, so nothing is kept for later.
C28_SignalToUnboundFails ==
    [][\A c \in Conns, to \in UserIds :
           (ParserSignal(c, to) /\ ~InMap(user_ws_mapping, to))
               => /\ parser'[c].result \in {"Users not in same space",
                                            "Target user is not connected"}
                  /\ \A d \in Conns \ {c} : parser'[d] = parser[d]
                  /\ UNCHANGED <<space_broadcaster_manager, user_ws_mapping, sb, ws, route,
                                 loop, sent, joinedOn, chatVars>>]_vars

\* A joined user has signalled a user of the space that has no connection.
C28_Witness ==
    \E c \in Conns :
        /\ parser[c].result = "Target user is not connected"
        /\ parser[c].user_id \in joinedOn[c]

\* The number of start (stop) updates for user u and media type k put on the
\* queue of broadcaster b.
StreamUpdates(b, k, u, op) ==
    Cardinality({i \in DOMAIN sb[b].space_updates :
                     /\ sb[b].space_updates[i].event = StreamEvent(k, op)
                     /\ sb[b].space_updates[i].user_id = u})

\* C29: a start for a user that is not in users, or that is streaming the
\* kind already, changes nothing on the broadcaster (no stream, no update);
\* and after every step each (user, kind) has one active stream exactly when
\* it has one more start update than stop updates, none otherwise.
C29_OneStreamPerUserAndKind ==
    [][/\ \A c \in Conns, k \in MediaTypes :
              LET b == route[c].sb
                  u == parser[c].user_id
              IN (/\ ParserStream(c, k, "start")
                  /\ (u \notin sb[b].users \/ <<k, u>> \in sb[b].active_streams))
                     => sb' = sb
       /\ \A b \in Conns, k \in MediaTypes, u \in UserIds :
              StreamUpdates(b, k, u, "start")' - StreamUpdates(b, k, u, "stop")'
                  = IF <<k, u>> \in sb'[b].active_streams THEN 1 ELSE 0]_vars

\* A start was refused because the user streams the kind already.
C29_Witness ==
    \E c \in Conns :
        /\ parser[c].result = "Already streaming"
        /\ \E k \in MediaTypes : <<k, parser[c].user_id>> \in sb[route[c].sb].active_streams

C31_ScreenStreamStarts ==
    [][\A c \in Conns :
           LET b == route[c].sb
               u == parser[c].user_id
           IN (/\ ParserScreenStream(c)
               /\ u \in sb[b].users
               /\ <<"screen", u>> \notin sb[b].active_streams)
                  => /\ parser'[c].pc = "recv"
                     /\ <<"screen", u>> \in sb'[b].active_streams
                     /\ \E i \in DOMAIN sb'[b].space_updates :
                            /\ sb'[b].space_updates[i].event = "SCREEN_STREAM_STARTED"
                            /\ sb'[b].space_updates[i].user_id = u]_vars


\* Invocation k ran with no other invocation in progress: every other one is
\* not invoked, returned before k was invoked or was invoked after k returned.
Sequential(k) ==
    \A j \in Calls \ {k} :
        \/ call[j].pc = "idle"
        \/ j \in call[k].seen.before
        \/ call[k].pc = "done" /\ k \in call[j].seen.before

\* Invocation k of op has returned, and names a notification of its own user.
Returned(k, op) ==
    /\ call[k].op = op
    /\ call[k].pc = "done"
    /\ call[k].seen.row.user_id = call[k].user_id

\* C32: accept_invite on the user's own unread, unexpired invite to a space
\* with a free place succeeds, leaves the notification read and the user a
\* member; accept_invite on a notification that is read returns the
\* already-processed error and leaves the membership rows as they are.
C32_AcceptIsIdempotent ==
    \A k \in Calls :
        (Returned(k, "accept_invite") /\ Sequential(k)) =>
            LET row == call[k].seen.row
                member == <<call[k].user_id, row.spaceId>> \in user_spaces
            IN /\ (/\ row.status = "unread"
                   /\ ~Expired(row)
                   /\ call[k].seen.room
                   /\ ~call[k].seen.member)
                      => /\ call[k].result = "Invite accepted successfully"
                         /\ notifications[call[k].notification_id].status = "read"
                         /\ member
               /\ row.status = "read"
                      => /\ call[k].result = "Invite has already been processed"
                         /\ member = call[k].seen.member

\* C33: once accept_invite or decline_invite has returned for the user's own
\* unread invite whose expires_at was in the past, or get_user_invites has
\* returned for a user with such invites, the invite is dismissed; and
\* accept_invite on such an invite does not succeed and adds no membership.
C33_ExpiredInviteIsDismissed ==
    \A k \in Calls :
        /\ (/\ Returned(k, "accept_invite") \/ Returned(k, "decline_invite")
            /\ call[k].seen.row.status = "unread"
            /\ call[k].seen.expired)
               => notifications[call[k].notification_id].status = "dismissed"
        /\ (call[k].op = "get_user_invites" /\ call[k].pc = "done")
               => \A i \in call[k].seen.stale : notifications[i].status = "dismissed"
        /\ (/\ Returned(k, "accept_invite")
            /\ call[k].seen.expired
            /\ Sequential(k))
               => /\ call[k].result # "Invite accepted successfully"
                  /\ <<call[k].user_id, call[k].seen.row.spaceId>> \in user_spaces
                         => call[k].seen.member

\* C34: after every step, a decline_invite that has returned for the user's
\* own invite has left it dismissed if it was unread and has not declined it
\* otherwise; and no step changes a notification that is read or dismissed,
\* nor does accept_invite on one add a membership.
C34_DeclineAndTerminalStates ==
    [][/\ \A k \in Calls :
              (Returned(k, "decline_invite") /\ Sequential(k))' =>
                  IF call'[k].seen.row.status = "unread"
                  THEN /\ call'[k].result = "Invite declined"
                       /\ notifications'[call'[k].notification_id].status = "dismissed"
                  ELSE call'[k].result # "Invite declined"
       /\ \A n \in InviteIds :
              notifications[n].status \in {"read", "dismissed"}
                  => notifications'[n] = notifications[n]
       /\ \A k \in Calls :
              (/\ Returned(k, "accept_invite")'
               /\ Sequential(k)'
               /\ call'[k].seen.row.status \in {"read", "dismissed"})
                  => (<<call'[k].user_id, call'[k].seen.row.spaceId>> \in user_spaces'
                          => call'[k].seen.member)]_vars

\* The unread, unexpired invites of each recipient for each space.
Pending == [to \in users, s \in Spaces |-> existing_invite(to, s)]

C36_ChatOnlyAfterJoin ==
    /\ \A b \in Conns : \A i \in DOMAIN sb[b].space_updates :
           sb[b].space_updates[i].event = "chat_message"
               => sb[b].space_updates[i].user_id \in joinedOn[sb[b].space_updates[i].by]
    /\ \A m \in DOMAIN message :
           "broadcast" \in Range(message[m].passed)
               => message[m].sender_id \in joinedOn[message[m].by]


\* The number of times the update at queue place n was written to connection c.
Written(c, n) == Cardinality({i \in DOMAIN sent[c].updates : sent[c].updates[i] = n})

\* C37: when a fan-out reaches the end of the subscribers list, every
\* connection that was a subscriber when it began and still is one, that is
\* not the excluded connection and whose own send did not raise, has been
\* written the update exactly once.
C37_FanOutReachesEachSubscriberOnce ==
    [][\A l \in Conns :
           (LoopResume(l) /\ loop'[l].pc # "sending") =>
               \A c \in loop[l].startSubs \cap Range(sb[route[l].sb].subscribers) :
                   (c # loop[l].update.exclude_ws /\ c \notin loop[l].disconnected)
                       => Written(c, loop[l].seq) = 1]_vars


\* The user ids that user_ws_mapping binds to connection c.
BoundTo(c) == {u \in UserIds : Lookup(user_ws_mapping, u) = c}

\* C38: after every step each connection is the binding of at most one user
\* id; and when the parser of a connection has handled the close of its
\* transport, no user id whose join completed on it is bound to it, in the
\* users of its space or in its position_map.
C38_OneBindingAndNoneLeft ==
    [][/\ \A c \in Conns : Cardinality(BoundTo(c))' <= 1
       /\ \A c \in Conns : ParserEnds(c, "disconnect") =>
              \A u \in joinedOn[c] :
                  /\ u \notin BoundTo(c)'
                  /\ u \notin sb'[route[c].sb].users
                  /\ sb'[route[c].sb].position_map[u] = NoPos]_vars


\* C39: a webrtc_signal frame for another user, handled by the parser of a
\* connection, writes a WEBRTC_SIGNAL frame only to connections subscribed to
\* the space of that connection.
C39_SignalStaysInSpace ==
    [][\A c \in Conns, to \in UserIds :
           (ParserSignal(c, to) /\ to # parser[c].user_id) =>
               \A d \in Conns :
                   sent'[d].replies # sent[d].replies
                       => /\ route[d].sb # None
                          /\ sb[route[d].sb].space_id = sb[route[c].sb].space_id]_vars

====
